---- MODULE Spec2Model ----
(***************************************************************************)
(* A model of mailpile/config.py: the rule-driven containers (ConfigDict,  *)
(* ConfigList), the escaping codec (CommentedEscapedConfigParser) and the  *)
(* loader ConfigManager.parse_config / load. The containers are modelled   *)
(* as values; a second, reference-level model of construction and of the   *)
(* writes (the heap_ operators) tells copies from shared objects.          *)
(*                                                                         *)
(* Text is a sequence of one-character strings, so that formatting,        *)
(* parsing, escaping and base-36 conversion are computed, not assumed.     *)
(* Python values are records, one field name per Python type:              *)
(*   [none |-> TRUE]   None            [b |-> TRUE]     bool               *)
(*   [i |-> 42]        int             [s |-> <<"a">>]  unicode/str        *)
(*   [d |-> f]         a plain dict (f: function from Text keys to values) *)
(*   [kind |-> "dict" | "list", name, comment, rules, data, attrs]         *)
(*       a container; attrs are the instance attributes other than rules,  *)
(*       _name, _comment and _key                                          *)
(***************************************************************************)
EXTENDS Integers, Sequences, FiniteSets, TLC

VARIABLES cfg, lst, ret, log

vars == <<cfg, lst, ret, log>>

(***************************************************************************)
(* Bounds of the model.                                                    *)
(***************************************************************************)
MaxListLen == 11

MaxTreeListLen == 2

MaxValueLen == 3

MaxHeap == 71

(***************************************************************************)
(* Text helpers.                                                           *)
(***************************************************************************)
DIGITS == <<"0", "1", "2", "3", "4", "5", "6", "7", "8", "9">>

LOWERS == <<"a", "b", "c", "d", "e", "f", "g", "h", "i", "j", "k", "l", "m",
            "n", "o", "p", "q", "r", "s", "t", "u", "v", "w", "x", "y", "z">>

UPPERS == <<"A", "B", "C", "D", "E", "F", "G", "H", "I", "J", "K", "L", "M",
            "N", "O", "P", "Q", "R", "S", "T", "U", "V", "W", "X", "Y", "Z">>

Range(q) == {q[n] : n \in DOMAIN q}

IndexOf(ch, q) == CHOOSE n \in DOMAIN q : q[n] = ch

\* str.lower(), one character
LowerChar(ch) == IF ch \in Range(UPPERS) THEN LOWERS[IndexOf(ch, UPPERS)] ELSE ch

\* str.lower()
Lower(t) == [n \in DOMAIN t |-> LowerChar(t[n])]

\* str.strip() restricted to the space character
RECURSIVE LStrip(_)
LStrip(t) == IF t # <<>> /\ Head(t) = " " THEN LStrip(Tail(t)) ELSE t

RECURSIVE RStrip(_)
RStrip(t) ==
    IF t # <<>> /\ t[Len(t)] = " " THEN RStrip(SubSeq(t, 1, Len(t) - 1)) ELSE t

Strip(t) == RStrip(LStrip(t))

\* str.split(sep) for a one-character separator: the list of pieces
RECURSIVE Split(_, _)
Split(t, sep) ==
    IF \E n \in DOMAIN t : t[n] = sep
    THEN LET p == CHOOSE n \in DOMAIN t :
                      t[n] = sep /\ \A m \in 1..(n - 1) : t[m] # sep
         IN  <<SubSeq(t, 1, p - 1)>> \o Split(SubSeq(t, p + 1, Len(t)), sep)
    ELSE <<t>>

\* '%s/%s' % (a, b)
SlashJoin(a, b) == a \o <<"/">> \o b

\* the value of one digit in base 36 (int(x, 36) accepts both cases), -1 if none
DigitValue(ch) ==
    IF ch \in Range(DIGITS) THEN IndexOf(ch, DIGITS) - 1
    ELSE IF LowerChar(ch) \in Range(LOWERS) THEN IndexOf(LowerChar(ch), LOWERS) + 9
    ELSE -1

RECURSIVE DigitsValue(_, _)
DigitsValue(t, base) ==
    IF t = <<>> THEN 0
    ELSE DigitsValue(SubSeq(t, 1, Len(t) - 1), base) * base + DigitValue(t[Len(t)])

\* Python's int(text, base): surrounding blanks are dropped, one sign is
\* allowed, every other character has to be a digit of the base.
\* The result is [ok |-> TRUE, v |-> n], or [ok |-> FALSE] for ValueError.
ParseInt(text, base) ==
    LET t == Strip(text)
        neg == t # <<>> /\ Head(t) = "-"
        body == IF t # <<>> /\ Head(t) \in {"-", "+"} THEN Tail(t) ELSE t
    IN  IF body = <<>> \/ \E n \in DOMAIN body :
                              DigitValue(body[n]) < 0 \/ DigitValue(body[n]) >= base
        THEN [ok |-> FALSE]
        ELSE [ok |-> TRUE,
              v |-> IF neg THEN 0 - DigitsValue(body, base) ELSE DigitsValue(body, base)]

\* the digits of a natural number in a base, most significant first
RECURSIVE NatDigits(_, _, _)
NatDigits(n, base, alphabet) ==
    IF n < base THEN <<alphabet[n + 1]>>
    ELSE NatDigits(n \div base, base, alphabet) \o <<alphabet[(n % base) + 1]>>

\* unicode(n) / '%s' % n for an int
IntText(n) ==
    IF n < 0 THEN <<"-">> \o NatDigits(0 - n, 10, DIGITS) ELSE NatDigits(n, 10, DIGITS)

\* mailpile.util.b36: the base-36 rendering of a list position
b36(n) == NatDigits(n, 36, DIGITS \o LOWERS)

(***************************************************************************)
(* Text constants.                                                         *)
(***************************************************************************)
ANY == <<"_", "a", "n", "y">>

T_config == <<"c", "o", "n", "f", "i", "g">>

T_container == <<"c", "o", "n", "t", "a", "i", "n", "e", "r">>

T_key == <<"k", "e", "y">>

T_name == <<"n", "a", "m", "e">>

T_True == <<"T", "r", "u", "e">>

T_False == <<"F", "a", "l", "s", "e">>

T_None == <<"N", "o", "n", "e">>

None == [none |-> TRUE]

IsNone(v) == DOMAIN v = {"none"}

IsBool(v) == DOMAIN v = {"b"}

IsInt(v) == DOMAIN v = {"i"}

IsText(v) == DOMAIN v = {"s"}

IsPlainDict(v) == DOMAIN v = {"d"}

IsPlainList(v) == DOMAIN v = {"l"}

IsContainer(v) == "kind" \in DOMAIN v

IsConfigDict(v) == IsContainer(v) /\ v.kind = "dict"

IsConfigList(v) == IsContainer(v) /\ v.kind = "list"

\* f with key k bound to v (dict.__setitem__)
Put(f, k, v) == [x \in (DOMAIN f) \cup {k} |-> IF x = k THEN v ELSE f[x]]

\* a sequence of the elements of a finite set, in a fixed order
RECURSIVE SetToSeq(_)
SetToSeq(S) ==
    IF S = {} THEN <<>>
    ELSE LET x == CHOOSE y \in S : TRUE IN <<x>> \o SetToSeq(S \ {x})

(***************************************************************************)
(* Exceptions. InvalidKeyError is a subclass of ValueError (line 13).      *)
(***************************************************************************)
Raise(e, what, path) == [exc |-> e, what |-> what, path |-> path]

IsValueError(e) == e.exc \in {"ValueError", "InvalidKeyError"}

(***************************************************************************)
(* Checkers. A rule is [comment, checker, default]; a checker is one of    *)
(*   [c |-> "tag", t |-> "int"]    a string tag, looked up at registration *)
(*   [c |-> "type", f |-> "int"]   a type or a function                    *)
(*   [c |-> "bool", v |-> FALSE]   Python's True / False                   *)
(*   [c |-> "set", m |-> S]        a tuple of allowed values               *)
(*   [c |-> "rules", rules |-> R]  a dict of nested rules                  *)
(*   [c |-> "CD", rules |-> R]     a class made by _MakeCheck              *)
(***************************************************************************)
Rule(comment, checker, default) ==
    [comment |-> comment, checker |-> checker, default |-> default]

Tag(t) == [c |-> "tag", t |-> t]

Type(f) == [c |-> "type", f |-> f]

PyBool(v) == [c |-> "bool", v |-> v]

OneOf(m) == [c |-> "set", m |-> m]

Rules(r) == [c |-> "rules", rules |-> r]

\* _MakeCheck(ConfigDict, rules): a ConfigDict subclass with _RULES = rules
_MakeCheck(rules) == [c |-> "CD", rules |-> rules]

\* RULE_CHECK_MAP.get(check, check); the checks of the file system (dir,
\* file, path, new file, ...) and of CleanText (slug, hostname) are left out.
RULE_CHECK_MAP(check) ==
    IF check.c = "tag"
    THEN CASE check.t = "bool" -> Type("bool")
           [] check.t = "b36" -> Type("b36")
           [] check.t \in {"False", "false"} -> PyBool(FALSE)
           [] check.t = "int" -> Type("int")
           [] check.t \in {"email", "multiline", "mailroute", "str", "unicode"}
                -> Type("unicode")
           [] check.t \in {"True", "true"} -> PyBool(TRUE)
           [] OTHER -> check
    ELSE IF check = Type("str") THEN Type("unicode")
    ELSE check

\* bool(value)
Truth(value) ==
    CASE IsNone(value) -> FALSE
      [] IsBool(value) -> value.b
      [] IsInt(value) -> value.i # 0
      [] IsText(value) -> value.s # <<>>
      [] IsPlainDict(value) -> DOMAIN value.d # {}
      [] IsPlainList(value) -> value.l # <<>>
      [] IsContainer(value) -> DOMAIN value.data # {}

\* unicode(value) of a scalar, of a plain list and of a plain dict
Unicode(value) ==
    CASE IsNone(value) -> T_None
      [] IsBool(value) -> IF value.b THEN T_True ELSE T_False
      [] IsInt(value) -> IntText(value.i)
      [] IsText(value) -> value.s
      [] IsPlainList(value) ->       \* repr; only the empty list is spelled out
            IF value.l = <<>> THEN <<"[", "]">> ELSE <<"[", ".", ".", ".", "]">>
      [] IsPlainDict(value) ->       \* repr; only the empty dict is spelled out
            IF DOMAIN value.d = {} THEN <<"{", "}">> ELSE <<"{", ".", ".", ".", "}">>

\* checker(value) for a type or function checker:
\* [ok |-> TRUE, v |-> coerced] or [ok |-> FALSE, exc |-> the exception class]
ApplyType(f, value) ==
    CASE f = "bool" -> [ok |-> TRUE, v |-> [b |-> Truth(value)]]
      [] f = "unicode" -> [ok |-> TRUE, v |-> [s |-> Unicode(value)]]
      [] f = "int" ->
            IF IsInt(value) THEN [ok |-> TRUE, v |-> value]
            ELSE IF IsBool(value)
                 THEN [ok |-> TRUE, v |-> [i |-> IF value.b THEN 1 ELSE 0]]
            ELSE IF IsText(value)
                 THEN LET p == ParseInt(value.s, 10)
                      IN  IF p.ok THEN [ok |-> TRUE, v |-> [i |-> p.v]]
                          ELSE [ok |-> FALSE, exc |-> "ValueError"]
            ELSE [ok |-> FALSE, exc |-> "TypeError"]
      [] f = "b36" ->   \* _B36Check: int(b36val, 36); str(b36val).lower()
            IF IsText(value)
            THEN IF ParseInt(value.s, 36).ok
                 THEN [ok |-> TRUE, v |-> [s |-> Lower(value.s)]]
                 ELSE [ok |-> FALSE, exc |-> "ValueError"]
            ELSE [ok |-> FALSE, exc |-> "TypeError"]

(***************************************************************************)
(* Containers (RuledContainer.RC, ConfigDict, ConfigList).                 *)
(* A container is [kind, name, comment, rules, data]: rules is a function  *)
(* from Text keys to rules; data is a function from Text keys to values    *)
(* (kind "dict") or a sequence of values (kind "list"). A comment of None  *)
(* is the empty text (the code only tests it for truth). Keys given to a   *)
(* ConfigDict are Text; keys given to a ConfigList are [i |-> n] or        *)
(* [s |-> text].                                                           *)
(* An operation returns [ok |-> TRUE, c |-> container after, v |-> result] *)
(* or [ok |-> FALSE, c |-> container at the raise, err |-> exception].     *)
(***************************************************************************)
Ok(c, v) == [ok |-> TRUE, c |-> c, v |-> v]

Err(c, e) == [ok |-> FALSE, c |-> c, err |-> e]

\* the container after pcls.__init__ and reset()
Blank(kind, name, comment) ==
    [kind |-> kind, name |-> name, comment |-> comment, rules |-> <<>>, data |-> <<>>,
     attrs |-> <<>>]

\* Python's ==, as far as the modelled values need it: True == 1, False == 0
PyEq(a, b) ==
    IF IsBool(a) /\ IsInt(b) THEN b.i = (IF a.b THEN 1 ELSE 0)
    ELSE IF IsInt(a) /\ IsBool(b) THEN a.i = (IF b.b THEN 1 ELSE 0)
    ELSE a = b

\* '%s' % key
KeyText(key) == IF IsInt(key) THEN IntText(key.i) ELSE key.s

\* RC.__fixkey__ / ConfigList.__fixkey__
fixkey(c, key) ==
    IF c.kind = "list" /\ IsText(key)
    THEN LET p == ParseInt(key.s, 36) IN IF p.ok THEN [i |-> p.v] ELSE key
    ELSE key

\* `key in self.rules`, for a key as given to a ConfigList
InRules(c, key) == IsText(key) /\ key.s \in DOMAIN c.rules

\* RC.get_rule, on a ConfigList
ListGetRule(c, key0) ==
    LET key == fixkey(c, key0)
    IN  IF ~InRules(c, key)
        THEN IF ANY \in DOMAIN c.rules
             THEN [ok |-> TRUE, rule |-> c.rules[ANY]]
             ELSE [ok |-> FALSE,
                   err |-> Raise("InvalidKeyError", "Invalid key", SlashJoin(c.name, KeyText(key)))]
        ELSE [ok |-> TRUE, rule |-> c.rules[key.s]]

\* RC.get_rule, on a ConfigDict
get_rule(c, key) ==
    IF key \notin DOMAIN c.rules
    THEN IF ANY \in DOMAIN c.rules
         THEN [ok |-> TRUE, rule |-> c.rules[ANY]]
         ELSE [ok |-> FALSE,
               err |-> Raise("InvalidKeyError", "Invalid key", SlashJoin(c.name, key))]
    ELSE [ok |-> TRUE, rule |-> c.rules[key]]

\* hasattr(value, 'key') as RC.__getattr__ answers it: a ConfigDict has the
\* attribute when its rules cover the name 'key'; nothing else has it
HasAttrKey(value) ==
    IsConfigDict(value) /\ (T_key \in DOMAIN value.rules \/ ANY \in DOMAIN value.rules)

\* RC.__passkey__ (ConfigDict): the value as stored under key
passkey(c, key, value) ==
    IF HasAttrKey(value) THEN [value EXCEPT !.name = SlashJoin(c.name, key)] ELSE value

\* ConfigList.__passkey__: hasattr(value, '_key') holds of every container
ListPasskey(c, n, value) ==
    IF IsContainer(value)
    THEN [value EXCEPT !.name = SlashJoin(c.name, Lower(b36(n)))]
    ELSE value

RECURSIVE add_rule(_, _, _)
RECURSIVE set_rules(_, _, _)
RECURSIVE NewContainer(_, _, _, _)
RECURSIVE setitem(_, _, _)
RECURSIVE UpdatePairs(_, _)
RECURSIVE update(_, _)
RECURSIVE CheckValue(_, _, _)
RECURSIVE extend(_, _)
RECURSIVE extend_GoesOn(_, _)

\* RC.add_rule. Defaults are None, scalars, a dict or a list, so the
\* TypeError of line 354 does not arise.
add_rule(c, key, rule) ==
    LET check == RULE_CHECK_MAP(rule.checker)
        name == SlashJoin(c.name, key)
        comment == rule.comment
        value == rule.default
        nested == IsPlainDict(value) \/ IsPlainList(value)
        child_rules ==
            IF check.c = "rules"
            THEN (ANY :> Rule(comment, _MakeCheck(check.rules), None))
            ELSE IF IsPlainDict(value) THEN value.d
            ELSE (ANY :> Rule(comment, check, None))
        stored == Rule(comment, IF nested THEN PyBool(FALSE) ELSE check, value)
        c1 == [c EXCEPT !.rules = Put(@, key, stored)]
    IN  IF IsPlainDict(value)
        THEN [c1 EXCEPT !.data = Put(@, key, NewContainer("dict", name, comment, child_rules))]
        ELSE IF IsPlainList(value)
        THEN [c1 EXCEPT !.data = Put(@, key, NewContainer("list", name, comment, child_rules))]
        ELSE c1

\* RC.set_rules after reset(): add_rule for every key of the rules
set_rules(c, rules, keys) ==
    IF keys = {} THEN c
    ELSE LET k == CHOOSE x \in keys : TRUE
         IN  set_rules(add_rule(c, k, rules[k]), rules, keys \ {k})

\* RC.__init__ without seed data
NewContainer(kind, name, comment, rules) ==
    set_rules(Blank(kind, name, comment), rules, DOMAIN rules)

\* the checks of RC.__setitem__ (lines 411-427) for a value written at
\* path: [ok |-> TRUE, v |-> the value to store] or [ok |-> FALSE, err |-> e]
\* the outcome r of a type checker called on the value (lines 424-427)
CheckedType(r, path) ==
    IF r.ok THEN [ok |-> TRUE, v |-> r.v]
    ELSE [ok |-> FALSE, err |-> Raise("ValueError", "Invalid value", path)]

\* the outcome r of ConfigDict(_rules=..., **value) (lines 54-57) called on
\* the value: ValueError and TypeError become InvalidValue (lines 424-427)
CheckedRules(r, path) ==
    IF r.ok THEN [ok |-> TRUE, v |-> r.c]
    ELSE IF IsValueError(r.err) \/ r.err.exc = "TypeError"
         THEN [ok |-> FALSE, err |-> Raise("ValueError", "Invalid value", path)]
         ELSE [ok |-> FALSE, err |-> r.err]

\* a __setitem__ that stores the value as supplied, without the checker
CheckValue_Unchecked(checker, path, value) == [ok |-> TRUE, v |-> value]

CheckValue(checker, path, value) ==
    IF checker = PyBool(TRUE) THEN [ok |-> TRUE, v |-> value]
    ELSE IF checker = PyBool(FALSE)
    THEN [ok |-> FALSE, err |-> Raise("ValueError", "Modifying is not allowed", path)]
    ELSE IF checker.c = "set"
    THEN IF \E m \in checker.m : PyEq(m, value)
         THEN [ok |-> TRUE, v |-> value]
         ELSE [ok |-> FALSE, err |-> Raise("ValueError", "Invalid value", path)]
    ELSE IF checker.c = "type"
    THEN CheckedType(ApplyType(checker.f, value), path)
    ELSE IF checker.c = "CD"
    THEN CheckedRules(update(NewContainer("dict", T_config, <<>>, checker.rules), value), path)
    ELSE [ok |-> FALSE, err |-> Raise("Exception", "Unknown constraint", path)]

\* RC.__setitem__ on a ConfigDict
\* dict.__setitem__(self, key, self.__passkey__(key, value)) (line 429),
\* reached when the checks, whose outcome is v, have passed
DictStore(c, key, v) ==
    IF ~v.ok THEN Err(c, v.err)
    ELSE Ok([c EXCEPT !.data = Put(@, key, passkey(c, key, v.v))], None)

setitem(c, key, value) ==
    LET r == get_rule(c, key)
    IN  IF ~r.ok THEN Err(c, r.err)
        ELSE DictStore(c, key, CheckValue(r.rule.checker, SlashJoin(c.name, key), value))

\* `for key, val in pairs: self[key] = val`, stopping at the first raise
RECURSIVE UpdateRest(_, _)
UpdatePairs(c, pairs) ==
    IF pairs = <<>> THEN Ok(c, None)
    ELSE UpdateRest(setitem(c, Head(pairs)[1], Head(pairs)[2]), Tail(pairs))

\* the loop of update after one assignment with outcome r
UpdateRest(r, pairs) == IF r.ok THEN UpdatePairs(r.c, pairs) ELSE r

\* ConfigDict.update(src) with one positional source. A source with keys()
\* is read key by key (in dict order, which the model fixes); a list is
\* read as pairs; a text is iterated by character, and unpacking a character
\* into (key, val) raises ValueError; other scalars are not iterable.
update(c, src) ==
    IF IsPlainDict(src)
    THEN UpdatePairs(c, [n \in 1..Cardinality(DOMAIN src.d) |->
                            LET k == SetToSeq(DOMAIN src.d)[n] IN <<k, src.d[k]>>])
    ELSE IF IsConfigDict(src)
    THEN UpdatePairs(c, [n \in 1..Cardinality(DOMAIN src.data) |->
                            LET k == SetToSeq(DOMAIN src.data)[n] IN <<k, src.data[k]>>])
    ELSE IF IsPlainList(src) THEN UpdatePairs(c, src.l)
    ELSE IF IsText(src)
    THEN IF src.s = <<>> THEN Ok(c, None)
         ELSE Err(c, Raise("ValueError", "need more than 1 value to unpack", c.name))
    ELSE Err(c, Raise("TypeError", "object is not iterable", c.name))

\* list.__setitem__(self, key, value) after ConfigList.__passkey__
\* reached when the checks, whose outcome is v, have passed
ListStore(c, key, v) ==
    IF ~v.ok THEN Err(c, v.err)
    ELSE IF ~IsInt(key)
    THEN Err(c, Raise("TypeError", "list indices must be integers", c.name))
    ELSE LET n == IF key.i < 0 THEN key.i + Len(c.data) ELSE key.i
         IN  IF n < 0 \/ n >= Len(c.data)
             THEN Err(c, Raise("IndexError", "list assignment index out of range", c.name))
             ELSE Ok([c EXCEPT !.data[n + 1] = ListPasskey(c, key.i, v.v)], None)

\* RC.__setitem__ on a ConfigList
ListSetItem(c, key0, value) ==
    LET key == fixkey(c, key0)
        r == ListGetRule(c, key)
    IN  IF ~r.ok THEN Err(c, r.err)
        ELSE ListStore(c, key,
                       CheckValue(r.rule.checker, SlashJoin(c.name, KeyText(key)), value))

\* the slot ConfigList.append reserves at the end of the list (line 462)
Reserve(c) == [c EXCEPT !.data = Append(@, None)]

\* the end of append after the write of the slot, whose outcome is r: the
\* address of the slot, or the slot dropped and the exception raised again
Appended(r) ==
    IF r.ok THEN Ok(r.c, [s |-> b36(Len(r.c.data) - 1)])
    ELSE Err([r.c EXCEPT !.data = SubSeq(@, 1, Len(@) - 1)], r.err)

\* append answering with the address of the length after the append
append_AddressOfLength(c, value) ==
    LET r == ListSetItem(Reserve(c), [i |-> Len(c.data)], value)
    IN  IF r.ok THEN Ok(r.c, [s |-> b36(Len(r.c.data))])
        ELSE Err([r.c EXCEPT !.data = SubSeq(@, 1, Len(@) - 1)], r.err)

\* ConfigList.append: reserve a slot, write it, drop the slot on any raise
append(c, value) == Appended(ListSetItem(Reserve(c), [i |-> Len(c.data)], value))

\* extend going on after an element that raised, and raising at the end
extend_GoesOn(c, src) ==
    IF src = <<>> THEN Ok(c, None)
    ELSE LET r == append(c, Head(src))
             rest == extend_GoesOn(r.c, Tail(src))
         IN  IF r.ok THEN rest ELSE Err(rest.c, r.err)

\* the loop of extend after one append with outcome r
ExtendRest(r, src) == IF r.ok THEN extend(r.c, src) ELSE r

\* ConfigList.extend / __iadd__: append one by one, stop at the first raise
extend(c, src) ==
    IF src = <<>> THEN Ok(c, None)
    ELSE ExtendRest(append(c, Head(src)), Tail(src))

(***************************************************************************)
(* The rules of the model's configuration: the rules of the ConfigDict     *)
(* doctest (lines 532-540), and one key for each further kind of rule the  *)
(* code treats differently: a string with a non-empty default, a boolean,  *)
(* a scalar with a fixed value-set, a mapping with a wildcard rule (as     *)
(* PathDict, line 622) and a rule whose checker tag RULE_CHECK_MAP does    *)
(* not know.                                                               *)
(***************************************************************************)
T_potatoes == <<"p", "o", "t", "a", "t", "o", "e", "s">>

T_carrots == <<"c", "a", "r", "r", "o", "t", "s">>

T_liquids == <<"l", "i", "q", "u", "i", "d", "s">>

T_water == <<"w", "a", "t", "e", "r">>

T_vodka == <<"v", "o", "d", "k", "a">>

T_tags == <<"t", "a", "g", "s">>

T_c == <<"c">>

T_x == <<"x">>

T_colors == <<"c", "o", "l", "o", "r", "s">>

T_red == <<"r", "e", "d">>

T_blue == <<"b", "l", "u", "e">>

T_green == <<"g", "r", "e", "e", "n">>

T_debug == <<"d", "e", "b", "u", "g">>

T_quiet == <<"q", "u", "i", "e", "t">>

T_color == <<"c", "o", "l", "o", "r">>

T_paths == <<"p", "a", "t", "h", "s">>

T_odd == <<"o", "d", "d">>

T_sys == <<"s", "y", "s">>

T_bogus == <<"b", "o", "g", "u", "s">>

T_evil == <<"e", "v", "i", "l">>

T_moo == <<"m", "o", "o">>

T_woots == <<"w", "o", "o", "t", "s">>

T_log == <<"l", "o", "g">>

T_home == <<"h", "o", "m", "e">>

Txt(t) == [s |-> t]

Num(n) == [i |-> n]

Bool(v) == [b |-> v]

PlainDict(f) == [d |-> f]

PlainList(q) == [l |-> q]

LIQUID_RULES ==
    (T_water :> Rule(<<"L">>, Type("int"), Num(0)))
    @@ (T_vodka :> Rule(<<"L">>, Type("int"), Num(12)))

TAG_RULES ==
    (T_c :> Rule(<<"C">>, Type("int"), Num(0)))
    @@ (T_x :> Rule(<<"X">>, Type("str"), Txt(<<>>)))

PATH_RULES == (ANY :> Rule(<<"D">>, Tag("str"), Txt(<<>>)))

CONFIG_RULES ==
    (T_potatoes :> Rule(<<"P">>, Tag("int"), Num(0)))
    @@ (T_carrots :> Rule(<<"C">>, Type("int"), Num(99)))
    @@ (T_liquids :> Rule(<<"F">>, PyBool(FALSE), PlainDict(LIQUID_RULES)))
    @@ (T_tags :> Rule(<<"T">>, Rules(TAG_RULES), PlainList(<<>>)))
    @@ (T_colors :> Rule(<<"C">>, OneOf({Txt(T_red), Txt(T_blue)}), PlainList(<<>>)))
    @@ (T_debug :> Rule(<<"D">>, Tag("str"), Txt(T_log)))
    @@ (T_quiet :> Rule(<<"Q">>, Tag("bool"), Bool(FALSE)))
    @@ (T_color :> Rule(<<>>, OneOf({Txt(T_red), Txt(T_blue)}), Txt(T_red)))
    @@ (T_paths :> Rule(<<"P">>, PyBool(FALSE), PlainDict(PATH_RULES)))
    @@ (T_odd :> Rule(<<"O">>, Tag("nosuchtype"), None))

\* ConfigManager(rules=CONFIG_RULES): ConfigDict.__init__(self, _rules=rules)
ConfigManager == NewContainer("dict", T_config, <<>>, CONFIG_RULES)

(***************************************************************************)
(* The codec: CommentedEscapedConfigParser over ConfigParser's             *)
(* RawConfigParser. A parser object is a sequence of sections              *)
(* [name |-> Text, items |-> sequence of <<key, raw value>>], in the order *)
(* of first appearance, as RawConfigParser keeps them. The text of a file  *)
(* is a sequence of lines. Characters are the printable ASCII characters   *)
(* and the newline.                                                        *)
(***************************************************************************)
\* the printable ASCII characters; ASCII[n] has code n + 31. The double
\* quote, the backslash and the backtick are written "dquote", "backslash"
\* and "backtick".
ASCII == <<
             " ", "!", "dquote", "#", "$", "%", "&", "'", "(", ")", "*", "+",
             ",", "-", ".", "/", "0", "1", "2", "3", "4", "5", "6", "7",
             "8", "9", ":", ";", "<", "=", ">", "?", "@", "A", "B", "C",
             "D", "E", "F", "G", "H", "I", "J", "K", "L", "M", "N", "O",
             "P", "Q", "R", "S", "T", "U", "V", "W", "X", "Y", "Z", "[",
             "backslash", "]", "^", "_", "backtick", "a", "b", "c", "d", "e", "f", "g",
             "h", "i", "j", "k", "l", "m", "n", "o", "p", "q", "r", "s",
             "t", "u", "v", "w", "x", "y", "z", "{", "|", "}", "~" >>

NEWLINE == "\n"

HEXDIGITS == SubSeq(DIGITS, 1, 10) \o SubSeq(UPPERS, 1, 6)

\* ord(ch)
Ord(ch) == IF ch = NEWLINE THEN 10 ELSE IndexOf(ch, ASCII) + 31

\* urllib.quote leaves letters, digits, '_', '.', '-' and the safe characters
QuoteSafe(ch) ==
    \/ ch \in Range(DIGITS) \cup Range(LOWERS) \cup Range(UPPERS)
    \/ ch \in {"_", ".", "-", " ", "/"}

\* urllib.quote(text, safe=' /')
RECURSIVE quote(_)
quote(t) ==
    IF t = <<>> THEN <<>>
    ELSE (IF QuoteSafe(Head(t)) THEN <<Head(t)>>
          ELSE <<"%", HEXDIGITS[(Ord(Head(t)) \div 16) + 1],
                      HEXDIGITS[(Ord(Head(t)) % 16) + 1]>>)
         \o quote(Tail(t))

\* whether the two characters after a '%' name a character of the model
IsEscape(piece) ==
    /\ Len(piece) >= 2
    /\ DigitValue(piece[1]) \in 0..15
    /\ DigitValue(piece[2]) \in 0..15
    /\ LET code == DigitValue(piece[1]) * 16 + DigitValue(piece[2])
       IN  code = 10 \/ code \in 32..126

Chr(code) == IF code = 10 THEN NEWLINE ELSE ASCII[code - 31]

\* one piece of text.split('%') after the first, as urllib.unquote reads it
UnquotePiece(piece) ==
    IF IsEscape(piece)
    THEN <<Chr(DigitValue(piece[1]) * 16 + DigitValue(piece[2]))>>
         \o SubSeq(piece, 3, Len(piece))
    ELSE <<"%">> \o piece

RECURSIVE UnquotePieces(_)
UnquotePieces(pieces) ==
    IF pieces = <<>> THEN <<>>
    ELSE UnquotePiece(Head(pieces)) \o UnquotePieces(Tail(pieces))

\* urllib.unquote(text)
unquote(t) ==
    LET pieces == Split(t, "%") IN Head(pieces) \o UnquotePieces(Tail(pieces))

\* ' ' * n
Spaces(n) == [k \in 1..n |-> " "]

\* the raw value CommentedEscapedConfigParser.set stores (lines 35-40)
CodecValue(key, text, comment) ==
    LET q == quote(text)
        v == IF q # <<>> /\ q[Len(q)] = " "
             THEN SubSeq(q, 1, Len(q) - 1) \o <<"%", "2", "0">>
             ELSE q
    IN  IF comment # <<>>
        THEN v \o Spaces(25 - Len(key) - Len(v)) \o <<" ", ";", " ">> \o comment
        ELSE v

\* RawConfigParser.add_section on the parser object p
add_section(p, section) == Append(p, [name |-> section, items |-> <<>>])

HasSection(p, section) == \E n \in DOMAIN p : p[n].name = section

\* dict.__setitem__ on an ordered dict of items
PutItem(items, key, value) ==
    IF \E n \in DOMAIN items : items[n][1] = key
    THEN [n \in DOMAIN items |-> IF items[n][1] = key THEN <<key, value>> ELSE items[n]]
    ELSE Append(items, <<key, value>>)

\* CommentedEscapedConfigParser.set: RawConfigParser.set stores the raw
\* value under optionxform(key), the key in lower case
CodecSet(p, section, key, text, comment) ==
    [n \in DOMAIN p |->
        IF p[n].name = section
        THEN [p[n] EXCEPT !.items = PutItem(@, Lower(key), CodecValue(key, text, comment))]
        ELSE p[n]]

\* RawConfigParser.write: a header line and one 'key = value' line per item
RECURSIVE ItemLines(_)
ItemLines(items) ==
    IF items = <<>> THEN <<>>
    ELSE <<Head(items)[1] \o <<" ", "=", " ">> \o Head(items)[2]>> \o ItemLines(Tail(items))

RECURSIVE WriteLines(_)
WriteLines(p) ==
    IF p = <<>> THEN <<>>
    ELSE <<(<<"[">> \o Head(p).name \o <<"]">>)>> \o ItemLines(Head(p).items)
         \o <<(<<>>)>> \o WriteLines(Tail(p))

\* the position of the first character of t in the set S, or 0
FirstOf(t, S) ==
    IF \E n \in DOMAIN t : t[n] \in S
    THEN CHOOSE n \in DOMAIN t : t[n] \in S /\ \A m \in 1..(n - 1) : t[m] \notin S
    ELSE 0

\* the value of an option line as RawConfigParser._read keeps it: an inline
\* comment goes when the first ';' follows a blank (optval[pos-1], where
\* pos-1 = -1 is the last character), then the blanks around it
ReadValue(optval) ==
    LET pos == FirstOf(optval, {";"})
        before == IF pos = 1 THEN optval[Len(optval)] ELSE optval[pos - 1]
        cut == IF pos > 0 /\ before = " " THEN SubSeq(optval, 1, pos - 1) ELSE optval
        v == Strip(cut)
    IN  IF v = <<"dquote", "dquote">> THEN <<>> ELSE v

\* RawConfigParser._read, line by line, with p the sections so far and cur
\* the name of the current section ([none |-> TRUE] before the first header).
\* Blank lines and lines that begin with '#' or ';' are skipped; a header
\* opens or reopens a section; an option line is split at its first ':' or
\* '='. Lines that continue a value and lines that are neither are left out
\* of the model's files.
RECURSIVE ReadLines(_, _, _)
ReadLines(lines, p, cur) ==
    IF lines = <<>> THEN p
    ELSE LET line == Head(lines)
             rest == Tail(lines)
         IN  IF Strip(line) = <<>> \/ line[1] \in {"#", ";"} THEN ReadLines(rest, p, cur)
             ELSE IF line[1] = "[" /\ FirstOf(line, {"]"}) > 2
             THEN LET header == SubSeq(line, 2, FirstOf(line, {"]"}) - 1)
                  IN  ReadLines(rest,
                                IF HasSection(p, header) THEN p ELSE add_section(p, header),
                                Txt(header))
             ELSE IF FirstOf(line, {":", "="}) > 1 /\ line[1] # " " /\ ~IsNone(cur)
             THEN LET pos == FirstOf(line, {":", "="})
                      optname == Lower(RStrip(SubSeq(line, 1, pos - 1)))
                      optval == ReadValue(LStrip(SubSeq(line, pos + 1, Len(line))))
                  IN  ReadLines(rest,
                                [n \in DOMAIN p |->
                                    IF p[n].name = cur.s
                                    THEN [p[n] EXCEPT !.items = PutItem(@, optname, optval)]
                                    ELSE p[n]],
                                cur)
             ELSE ReadLines(rest, p, cur)

\* parser.readfp(io.BytesIO(data))
readfp(lines) == ReadLines(lines, <<>>, None)

\* CommentedEscapedConfigParser.items(section): the unquoted values
CodecItems(sec) == [n \in DOMAIN sec.items |-> <<sec.items[n][1], unquote(sec.items[n][2])>>]

(***************************************************************************)
(* Reading a container: get, __getitem__, keys.                            *)
(***************************************************************************)
\* get with the rule's default taking precedence over the caller's
get_RuleDefaultFirst(c, key, default) ==
    IF key \in DOMAIN c.data THEN c.data[key]
    ELSE IF key \in DOMAIN c.rules THEN c.rules[key].default
    ELSE default

\* RC.get(key, default) on a ConfigDict
get(c, key, default) ==
    IF key \in DOMAIN c.data THEN c.data[key]
    ELSE IF IsNone(default) /\ key \in DOMAIN c.rules THEN c.rules[key].default
    ELSE default

\* RC.__getitem__ on a ConfigDict: [ok |-> TRUE, v |-> value] or KeyError
getitem(c, key) ==
    IF key \in DOMAIN c.rules \/ ANY \in DOMAIN c.rules
    THEN [ok |-> TRUE, v |-> get(c, key, None)]
    ELSE IF key \in DOMAIN c.data THEN [ok |-> TRUE, v |-> c.data[key]]
    ELSE [ok |-> FALSE, err |-> Raise("KeyError", "KeyError", SlashJoin(c.name, key))]

\* ConfigList.__getitem__: list.__getitem__(self, self.__fixkey__(key))
ListGetItem(c, key0) ==
    LET key == fixkey(c, key0)
    IN  IF ~IsInt(key)
        THEN [ok |-> FALSE,
              err |-> Raise("TypeError", "list indices must be integers", c.name)]
        ELSE LET n == IF key.i < 0 THEN key.i + Len(c.data) ELSE key.i
             IN  IF n < 0 \/ n >= Len(c.data)
                 THEN [ok |-> FALSE,
                       err |-> Raise("IndexError", "list index out of range", c.name)]
                 ELSE [ok |-> TRUE, v |-> c.data[n + 1], n |-> n]

\* ConfigList.keys() as a sequence: [b36(i).lower() for i in range(len(self))]
ListKeys(c) == [n \in 1..Len(c.data) |-> Lower(b36(n - 1))]

\* self.keys() as a set
keys(c) == IF c.kind = "list" THEN Range(ListKeys(c)) ELSE DOMAIN c.data

\* self[key] for a key that as_config iterates
Item(c, key) ==
    IF c.kind = "list" THEN ListGetItem(c, Txt(key)).v ELSE getitem(c, key).v

\* a < b for texts, as Python orders strings
RECURSIVE TextLess(_, _)
TextLess(a, b) ==
    IF b = <<>> THEN FALSE
    ELSE IF a = <<>> THEN TRUE
    ELSE IF Head(a) = Head(b) THEN TextLess(Tail(a), Tail(b))
    ELSE Ord(Head(a)) < Ord(Head(b))

\* sorted(S) for a set of texts
RECURSIVE sorted(_)
sorted(S) ==
    IF S = {} THEN <<>>
    ELSE LET m == CHOOSE x \in S : \A y \in S \ {x} : TextLess(x, y)
         IN  <<m>> \o sorted(S \ {m})

(***************************************************************************)
(* RC.as_config: the container tree as a parser object.                    *)
(* The state of the walk is [p |-> parser object, ok |-> no raise so far]. *)
(***************************************************************************)
\* the keys as_config emits, in order (lines 263-266)
ConfigKeys(c) ==
    sorted(((DOMAIN c.rules)
            \cup (IF DOMAIN c.rules = {} \/ ANY \in DOMAIN c.rules THEN keys(c) ELSE {}))
           \ {ANY})

\* the section name of a container (lines 258-260)
SectionName(c) ==
    IF c.comment # <<>> THEN c.name \o <<":", " ">> \o c.comment ELSE c.name

\* lines 270-287 for one key; added tells whether the section exists yet
ScalarEntry(c, st, key) ==
    LET value == Item(c, key)
        text == Unicode(value)
        isset == key \in keys(c)
        comment0 == IF key \in DOMAIN c.rules THEN c.rules[key].comment ELSE <<>>
        k == IF isset THEN key ELSE <<";">> \o key
        comment == IF isset THEN comment0
                   ELSE <<"(", "d", "e", "f", "a", "u", "l", "t", ")", " ">> \o comment0
    IN  IF ~st.ok \/ IsContainer(value) THEN st
        ELSE IF text = <<>> THEN st
        ELSE IF ~st.added /\ HasSection(st.p, SectionName(c))
        THEN [st EXCEPT !.ok = FALSE]     \* DuplicateSectionError
        ELSE [st EXCEPT
                !.p = CodecSet(IF st.added THEN @ ELSE add_section(@, SectionName(c)),
                               SectionName(c), k, text, comment),
                !.added = TRUE]

RECURSIVE ScalarEntries(_, _, _)
ScalarEntries(c, st, ks) ==
    IF ks = <<>> THEN st
    ELSE ScalarEntries(c, ScalarEntry(c, st, Head(ks)), Tail(ks))

RECURSIVE as_config(_, _)
RECURSIVE ChildSections(_, _, _)
\* lines 288-290: the nested containers, in the same order of keys
ChildSections(c, st, ks) ==
    IF ks = <<>> \/ ~st.ok THEN st
    ELSE LET value == Item(c, Head(ks))
         IN  ChildSections(c,
                           IF IsContainer(value) THEN as_config(value, st) ELSE st,
                           Tail(ks))

as_config(c, st) ==
    LET scalars == ScalarEntries(c, [st EXCEPT !.added = FALSE], ConfigKeys(c))
    IN  ChildSections(c, scalars, ConfigKeys(c))

\* as_config_bytes(): the lines RawConfigParser.write prints; ok is FALSE
\* when add_section raised DuplicateSectionError
Written(st) == [ok |-> st.ok, lines |-> WriteLines(st.p)]

as_config_bytes(c) == Written(as_config(c, [p |-> <<>>, ok |-> TRUE, added |-> FALSE]))

(***************************************************************************)
(* ConfigManager.parse_config.                                             *)
(* The local variable cfg refers to an object: a container or a scalar of  *)
(* the tree, named here by its path from the root (Text keys of mappings,  *)
(* positions of lists), or the plain dict that `cfg = cfg[part] = {}`      *)
(* makes. That statement assigns its targets from left to right: cfg       *)
(* becomes the new plain dict first, and the dict is then stored in        *)
(* itself under part; the tree is not written.                             *)
(* The state of a run is [root, cfg, okay, log, exc]: exc is None, or the  *)
(* exception that left parse_config.                                       *)
(***************************************************************************)
\* the object at a path of the tree
RECURSIVE TreeGet(_, _)
TreeGet(c, path) ==
    IF path = <<>> THEN c
    ELSE IF c.kind = "list" THEN TreeGet(c.data[Head(path) + 1], Tail(path))
    ELSE TreeGet(c.data[Head(path)], Tail(path))

\* the tree with the object at a path replaced (the object was mutated)
RECURSIVE TreeSet(_, _, _)
TreeSet(c, path, new) ==
    IF path = <<>> THEN new
    ELSE IF c.kind = "list"
    THEN [c EXCEPT !.data[Head(path) + 1] = TreeSet(@, Tail(path), new)]
    ELSE [c EXCEPT !.data[Head(path)] = TreeSet(@, Tail(path), new)]

InTree(path) == [at |-> "tree", path |-> path]

PlainCfg(part) == [at |-> "plain", keys |-> {part}]

\* u'Invalid (%s): section %s does not exist'
SectionWarning(section) == [warn |-> "section does not exist", section |-> section]

\* u'Invalid (%s): section %s, variable %s'
VariableWarning(section, var) ==
    [warn |-> "variable", section |-> section, var |-> var]

\* whether the text part occurs in the text t (`part in cfg` for a string)
IsSubstring(part, t) ==
    \E n \in 0..(Len(t) - Len(part)) : SubSeq(t, n + 1, n + Len(part)) = part

Abort(st, e) == [st EXCEPT !.exc = e]

\* `cfg.append({})` then `cfg = cfg[part]` (lines 698-699), with a the
\* outcome of the append on the list at st.cfg: neither statement is in a
\* try, so what either raises leaves parse_config
WalkAppended(st, part, a) ==
    IF ~a.ok THEN Abort(st, a.err)
    ELSE IF ListGetItem(a.c, Txt(part)).ok
    THEN [st EXCEPT !.root = TreeSet(@, st.cfg.path, a.c),
                    !.cfg = InTree(st.cfg.path \o <<ListGetItem(a.c, Txt(part)).n>>)]
    ELSE Abort([st EXCEPT !.root = TreeSet(@, st.cfg.path, a.c)],
               ListGetItem(a.c, Txt(part)).err)

\* one round of `for part in cfgpath` (lines 693-706)
WalkPart(st, section, part) ==
    IF st.cfg.at = "plain"
    THEN IF part \in st.cfg.keys THEN st      \* the dict holds itself under part
         ELSE Abort(st, Raise("AttributeError", "no attribute rules", part))
    ELSE LET cur == TreeGet(st.root, st.cfg.path)
         IN  IF IsConfigDict(cur)
             THEN IF part \in DOMAIN cur.data
                  THEN [st EXCEPT !.cfg = InTree(st.cfg.path \o <<part>>)]
                  ELSE IF ANY \in DOMAIN cur.rules
                  THEN [st EXCEPT !.cfg = PlainCfg(part)]
                  ELSE [st EXCEPT !.log = Append(@, SectionWarning(section)),
                                  !.okay = FALSE]
             ELSE IF IsConfigList(cur)
             THEN IF \E n \in DOMAIN cur.data : PyEq(cur.data[n], Txt(part))
                  THEN LET g == ListGetItem(cur, Txt(part))
                       IN  IF g.ok THEN [st EXCEPT !.cfg = InTree(st.cfg.path \o <<g.n>>)]
                           ELSE Abort(st, g.err)
                  ELSE IF ANY \in DOMAIN cur.rules
                  THEN WalkAppended(st, part, append(cur, PlainDict(<<>>)))
                  ELSE [st EXCEPT !.log = Append(@, SectionWarning(section)),
                                  !.okay = FALSE]
             ELSE IF IsText(cur)
             THEN IF IsSubstring(part, cur.s)
                  THEN Abort(st, Raise("TypeError", "string indices must be integers", part))
                  ELSE Abort(st, Raise("AttributeError", "no attribute rules", part))
             ELSE Abort(st, Raise("TypeError", "argument is not iterable", part))

RECURSIVE WalkPath(_, _, _)
WalkPath(st, section, parts) ==
    IF parts = <<>> \/ ~IsNone(st.exc) THEN st
    ELSE WalkPath(WalkPart(st, section, Head(parts)), section, Tail(parts))

\* lines 709-715 around `cfg[var] = val`, whose outcome is r: ValueError
\* (InvalidKeyError is one) and KeyError are caught, anything else leaves
\* parse_config
PairSet(st, section, var, r) ==
    IF r.ok THEN [st EXCEPT !.root = TreeSet(@, st.cfg.path, r.c)]
    ELSE IF IsValueError(r.err) \/ r.err.exc = "KeyError"
    THEN [st EXCEPT !.log = Append(@, VariableWarning(section, var)),
                    !.okay = FALSE]
    ELSE Abort(st, r.err)

\* `cfg[var] = val` on the object cur that cfg refers to
Assign(cur, var, val) ==
    IF IsConfigDict(cur) THEN setitem(cur, var, Txt(val))
    ELSE IF IsConfigList(cur) THEN ListSetItem(cur, Txt(var), Txt(val))
    ELSE Err(cur, Raise("TypeError", "object does not support item assignment", var))

\* one round of `for var, val in ...` (lines 707-715)
SetPair(st, section, var, val) ==
    IF st.cfg.at = "plain" THEN st            \* a plain dict takes any pair
    ELSE PairSet(st, section, var, Assign(TreeGet(st.root, st.cfg.path), var, val))

RECURSIVE SetPairs(_, _, _)
SetPairs(st, section, pairs) ==
    IF pairs = <<>> \/ ~IsNone(st.exc) THEN st
    ELSE SetPairs(SetPair(st, section, Head(pairs)[1], Head(pairs)[2]),
                  section, Tail(pairs))

\* section.split(':')[0].split('/')[1:]
cfgpath(section) == Tail(Split(Head(Split(section, ":")), "/"))

\* one round of `for section in parser.sections()` (lines 690-715); the
\* pairs are `okay and parser.items(section) or []`, read after the walk
SectionPairs(walked, sec) ==
    SetPairs(walked, sec.name, IF walked.okay THEN CodecItems(sec) ELSE <<>>)

ParseSection(st, sec) ==
    SectionPairs(WalkPath([st EXCEPT !.cfg = InTree(<<>>)], sec.name, cfgpath(sec.name)),
                 sec)

RECURSIVE ParseSections(_, _)
ParseSections(st, secs) ==
    IF secs = <<>> \/ ~IsNone(st.exc) THEN st
    ELSE ParseSections(ParseSection(st, Head(secs)), Tail(secs))

\* parse_config(session, data) on the tree root, with a session that logs:
\* [root |-> the tree after, okay |-> the value returned, log |-> the
\* warnings, exc |-> None or the exception that propagated]
Returned(st) == [root |-> st.root, okay |-> st.okay, log |-> st.log, exc |-> st.exc]

parse_config(root, lines) ==
    Returned(ParseSections([root |-> root, cfg |-> InTree(<<>>), okay |-> TRUE,
                            log |-> <<>>, exc |-> None],
                           readfp(lines)))

(***************************************************************************)
(* ConfigDict.__delitem__ (line 603): the message is formatted from        *)
(* self.name. No class defines name, so RC.__getattr__ answers: self[name] *)
(* when the rules cover name, and AttributeError otherwise.                *)
(***************************************************************************)
\* c.attr on a ConfigDict, for a name that is no attribute of the class: the
\* instance attribute when there is one; RC.__getattr__ is called only when
\* that lookup fails
getattr(c, attr) ==
    IF attr \in DOMAIN c.attrs THEN [ok |-> TRUE, v |-> c.attrs[attr]]
    ELSE IF attr \in DOMAIN c.rules \/ ANY \in DOMAIN c.rules
    THEN getitem(c, attr)
    ELSE [ok |-> FALSE, err |-> Raise("AttributeError", "no attribute", attr)]

\* RC.__setattr__ on a ConfigDict: __setitem__ for an explicit key of the
\* RuleSet, an instance attribute for every other name
setattr(c, attr, value) ==
    IF attr \in DOMAIN c.rules THEN setitem(c, attr, value)
    ELSE Ok([c EXCEPT !.attrs = Put(@, attr, value)], None)

\* self.name
getattr_name(c) == getattr(c, T_name)

delitem(c, key) ==
    LET n == getattr_name(c)
    IN  IF n.ok
        THEN Err(c, Raise("UsageError", "Deleting keys is not allowed", Unicode(n.v)))
        ELSE Err(c, n.err)

(***************************************************************************)
(* State.                                                                  *)
(*   cfg  the configuration tree, ConfigManager(rules=CONFIG_RULES)        *)
(*   lst  a list container, as in the doctests of ConfigList/ConfigDict    *)
(*   ret  what the last operation was given and what it answered           *)
(*   log  the warnings of the last parse_config (session.ui.warning)       *)
(***************************************************************************)
ROOT == <<>>

NoRet == [op |-> "none"]

Outcome(r) == IF r.ok THEN None ELSE r.err

(***************************************************************************)
(* Spec: item assignment, deletion and get on the mapping containers of    *)
(* the tree.                                                               *)
(***************************************************************************)
T_12 == <<"1", "2">>

T_7 == <<"7">>

T_tmp == <<"/", "t", "m", "p">>

\* container, key and value of the assignments tried
SetInputs ==
    { <<ROOT, T_potatoes, Txt(T_12)>>, <<ROOT, T_potatoes, Txt(T_moo)>>,
      <<ROOT, T_quiet, Bool(TRUE)>>, <<ROOT, T_quiet, Bool(FALSE)>>,
      <<ROOT, T_debug, Txt(<<>>)>>, <<ROOT, T_debug, Txt(T_woots)>>,
      <<ROOT, T_color, Txt(T_blue)>>, <<ROOT, T_color, Txt(T_green)>>,
      <<ROOT, T_evil, Num(123)>>, <<ROOT, T_odd, Num(1)>>,
      <<ROOT, T_liquids, Num(1)>>,
      <<<<T_liquids>>, T_vodka, Txt(T_7)>>, <<<<T_liquids>>, T_evil, Num(123)>>,
      <<<<T_paths>>, T_home, Txt(T_tmp)>>, <<<<T_paths>>, T_name, Txt(T_woots)>> }

\* container and key of the deletions tried
DelInputs ==
    { <<ROOT, T_potatoes>>, <<ROOT, T_evil>>, <<<<T_liquids>>, T_vodka>>,
      <<<<T_paths>>, T_home>>, <<<<T_paths>>, T_name>> }

\* container and key of the reads tried
GetInputs ==
    { <<ROOT, T_potatoes>>, <<ROOT, T_debug>>, <<ROOT, T_evil>>, <<ROOT, T_liquids>>,
      <<<<T_liquids>>, T_vodka>>, <<<<T_paths>>, T_home>> }

\* the defaults a caller of get passes
DefaultInputs == {None, Txt(T_woots), Num(5)}

Init ==
    /\ cfg = ConfigManager
    /\ lst = ConfigManager.data[T_colors]
    /\ ret = NoRet
    /\ log = <<>>

\* cfg[...][key] = value
SetItem ==
    \E in \in SetInputs :
        LET r == setitem(TreeGet(cfg, in[1]), in[2], in[3])
        IN  /\ cfg' = TreeSet(cfg, in[1], r.c)
            /\ ret' = [op |-> "set", path |-> in[1], key |-> in[2], arg |-> in[3],
                       exc |-> Outcome(r)]
            /\ UNCHANGED <<lst, log>>

\* del cfg[...][key]
DelItem ==
    \E in \in DelInputs :
        LET r == delitem(TreeGet(cfg, in[1]), in[2])
        IN  /\ cfg' = TreeSet(cfg, in[1], r.c)
            /\ ret' = [op |-> "del", path |-> in[1], key |-> in[2], before |-> cfg,
                       exc |-> Outcome(r)]
            /\ UNCHANGED <<lst, log>>

\* cfg[...].get(key, default)
Get ==
    \E in \in GetInputs, default \in DefaultInputs :
        /\ ret' = [op |-> "get", path |-> in[1], key |-> in[2], default |-> default,
                   v |-> get(TreeGet(cfg, in[1]), in[2], default)]
        /\ UNCHANGED <<cfg, lst, log>>

Next == SetItem \/ DelItem \/ Get

Spec == Init /\ [][Next]_vars

(***************************************************************************)
(* Claims about the mapping containers, checked under Spec.                *)
(***************************************************************************)
\* C6: del c[key] on a mapping container always fails with the container's
\* domain error (UsageError), whether the key is declared, covered by the
\* wildcard rule only, set or unset, and the tree is unchanged afterwards.
C6_DeleteRaisesUsageError ==
    ret.op = "del" => ret.exc.exc = "UsageError" /\ cfg = ret.before

\* C10, as amended: get(key, default) returns the stored value when the key
\* is set; otherwise the caller's default when the caller passes one (a
\* value other than None); otherwise the rule's default when the key is
\* declared; otherwise None.
C10_GetCallerDefaultFirst ==
    ret.op = "get" =>
        LET c == TreeGet(cfg, ret.path)
            isset == ret.key \in DOMAIN c.data
            declared == ret.key \in DOMAIN c.rules
        IN  /\ isset => ret.v = c.data[ret.key]
            /\ ~isset /\ ~IsNone(ret.default) => ret.v = ret.default
            /\ ~isset /\ IsNone(ret.default) /\ declared => ret.v = c.rules[ret.key].default
            /\ ~isset /\ IsNone(ret.default) /\ ~declared => IsNone(ret.v)

\* C10, witness: a declared, unset key read with a default of the caller's
\* that differs from the rule's default
C10_Witness ==
    /\ ret.op = "get"
    /\ LET c == TreeGet(cfg, ret.path)
       IN  /\ ret.key \notin DOMAIN c.data
           /\ ret.key \in DOMAIN c.rules
           /\ ~IsNone(ret.default)
           /\ ret.default # c.rules[ret.key].default
           /\ ret.v = ret.default

\* C10, as claimed: get(key, default) returns the stored value when the key
\* is set; otherwise the rule's default when the key is declared, also when
\* the caller passes a default of its own; the caller's default only when
\* the key is neither set nor declared.
C10_GetRuleDefaultFirst ==
    ret.op = "get" =>
        LET c == TreeGet(cfg, ret.path)
            isset == ret.key \in DOMAIN c.data
            declared == ret.key \in DOMAIN c.rules
        IN  /\ isset => ret.v = c.data[ret.key]
            /\ ~isset /\ declared => ret.v = c.rules[ret.key].default
            /\ ~isset /\ ~declared => ret.v = ret.default

(***************************************************************************)
(* SpecList: append and extend on a list container: the list of ints of    *)
(* the ConfigList doctest (line 440), and the lists colors (fixed          *)
(* value-set) and tags (nested rules) of the ConfigDict doctest.           *)
(***************************************************************************)
T_1 == <<"1">>

\* ConfigList(_rules={'_any': ['We only like ints', int, 0]})
IntList ==
    NewContainer("list", T_container, <<>>, (ANY :> Rule(<<"I">>, Type("int"), Num(0))))

IsIntList(c) == c.name = T_container

IsColors(c) == c.name = SlashJoin(T_config, T_colors)

\* the values offered to a list: valid ones and one the rule rejects
ValidInputs(c) ==
    IF IsIntList(c) THEN {Txt(T_1), Num(2)}
    ELSE IF IsColors(c) THEN {Txt(T_red)}
    ELSE {PlainDict(T_c :> Txt(T_7))}

InvalidInputs(c) ==
    IF IsIntList(c) THEN {Txt(T_moo)}
    ELSE IF IsColors(c) THEN {Txt(T_green)}
    ELSE {PlainDict(<<"z">> :> Txt(T_woots))}

ListInputs(c) == ValidInputs(c) \cup InvalidInputs(c)

\* the sequences offered to extend: every pair, and triples with the
\* rejected value first, in the middle, last and absent
ExtendInputs(c) ==
    {<<a, b>> : a \in ListInputs(c), b \in ListInputs(c)}
    \cup {<<a, x, a>> : a \in ValidInputs(c), x \in ListInputs(c)}
    \cup {<<x, a, a>> : a \in ValidInputs(c), x \in InvalidInputs(c)}
    \cup {<<a, a, x>> : a \in ValidInputs(c), x \in InvalidInputs(c)}

InitList ==
    /\ cfg = ConfigManager
    /\ lst \in {IntList, ConfigManager.data[T_colors], ConfigManager.data[T_tags]}
    /\ ret = NoRet
    /\ log = <<>>

\* what an append leaves behind: the list after it, and the call's outcome
AppendDone(value, r) ==
    /\ lst' = r.c
    /\ ret' = [op |-> "append", arg |-> value, before |-> lst,
               exc |-> Outcome(r), v |-> IF r.ok THEN r.v ELSE None]

\* lst.append(value)
ListAppend ==
    /\ Len(lst.data) < MaxListLen
    /\ \E value \in ListInputs(lst) : AppendDone(value, append(lst, value))
    /\ UNCHANGED <<cfg, log>>

\* what an extend leaves behind: the list after it, and the call's outcome
ExtendDone(src, r) ==
    /\ lst' = r.c
    /\ ret' = [op |-> "extend", arg |-> src, before |-> lst,
               exc |-> Outcome(r), v |-> None]

\* lst.extend(src), lst += src
ListExtend ==
    \E src \in ExtendInputs(lst) :
        /\ Len(lst.data) + Len(src) <= MaxListLen
        /\ ExtendDone(src, extend(lst, src))
        /\ UNCHANGED <<cfg, log>>

NextList == ListAppend \/ ListExtend

SpecList == InitList /\ [][NextList]_vars

\* the rule of the elements of a list container
ElementRule(c) == c.rules[ANY]

\* whether the rule of the list accepts the value
Accepts(c, value) == CheckValue(ElementRule(c).checker, <<>>, value).ok

\* the element a list holds at position n for an accepted value: the value
\* as the checker returns it, named after its place when it is a container
Coerced(c, n, value) ==
    ListPasskey(c, n, CheckValue(ElementRule(c).checker, <<>>, value).v)

\* the path of the element at position n of the list: <name>/<address>
SlotPath(c, n) == SlashJoin(c.name, Lower(b36(n)))

C8_FailedAppendNamesSlot ==
    ret.op = "append" /\ ~Accepts(ret.before, ret.arg) =>
        /\ ~IsNone(ret.exc)
        /\ ret.exc.exc = "ValueError"
        /\ ret.exc.path = SlotPath(ret.before, Len(ret.before.data))
        /\ lst = ret.before

\* where the first rejected element of src is, Len(src) + 1 if there is none
FirstInvalid(c, src) ==
    IF \E k \in DOMAIN src : ~Accepts(c, src[k])
    THEN CHOOSE k \in DOMAIN src :
            ~Accepts(c, src[k]) /\ \A j \in 1..(k - 1) : Accepts(c, src[j])
    ELSE Len(src) + 1

\* C9: extend(sequence) appends the elements in order and stops at the
\* first invalid one by raising InvalidValue: the list is then the old list
\* followed by the coerced elements before it, and nothing after it.
C9_ExtendStopsAtFirstInvalid ==
    ret.op = "extend" =>
        LET old == ret.before
            n == Len(old.data)
            bad == FirstInvalid(old, ret.arg)
        IN  /\ lst.data = old.data \o [k \in 1..(bad - 1) |-> Coerced(old, n + k - 1, ret.arg[k])]
            /\ bad <= Len(ret.arg) => ~IsNone(ret.exc) /\ ret.exc.exc = "ValueError"
            /\ bad > Len(ret.arg) => IsNone(ret.exc)
            /\ [lst EXCEPT !.data = old.data] = old

\* C9, witness: an extend whose second element of three is the invalid one
C9_Witness ==
    /\ ret.op = "extend"
    /\ Len(ret.arg) = 3
    /\ FirstInvalid(ret.before, ret.arg) = 2
    /\ ~IsNone(ret.exc)
    /\ Len(lst.data) = Len(ret.before.data) + 1

(***************************************************************************)
(* SpecLoad: parse_config on the tree, after a setup that appends tags as  *)
(* the test setup of the module does (lines 1057-1058). A text is a        *)
(* sequence of lines; the texts loaded are made of the sections below, one *)
(* for each way a section or a pair can be good or bad.                    *)
(***************************************************************************)
Header(path) == <<"[">> \o path \o <<"]">>

Option(key, val) == key \o <<" ", "=", " ">> \o val

T_5 == <<"5">>

T_3 == <<"3">>

T_0 == <<"0">>

T_bogus_variable == <<"b", "o", "g", "u", "s", "_", "v", "a", "r", "i", "a", "b", "l", "e">>

T_456 == <<"4", "5", "6">>

T_blabla == <<"b", "l", "a", "b", "l", "a">>

T_bla == <<"b", "l", "a">>

\* a section that resolves, with a valid pair
LIQUIDS_SECTION ==
    <<Header(SlashJoin(T_config, T_liquids)), Option(T_vodka, T_7)>>

\* a section no part of the tree answers to
BOGUS_SECTION ==
    <<Header(SlashJoin(T_config, T_bogus)), Option(T_blabla, T_bla)>>

\* a valid pair, a pair with an undeclared key, a valid pair
BOGUS_VARIABLE_SECTION ==
    <<Header(T_config), Option(T_potatoes, T_5), Option(T_bogus_variable, T_456),
      Option(T_carrots, T_3)>>

\* a pair whose value fails its rule, then a valid pair
BAD_VALUE_SECTION ==
    <<Header(T_config), Option(T_carrots, T_moo), Option(T_potatoes, T_5)>>

\* the first element of the list of tags
TAG_SECTION ==
    <<Header(SlashJoin(SlashJoin(T_config, T_tags), T_0)), Option(T_c, T_1)>>

\* an address beyond the list of tags
FAR_TAG_SECTION ==
    <<Header(SlashJoin(SlashJoin(T_config, T_tags), T_5)), Option(T_c, T_1)>>

\* a path that ends at a scalar key
SCALAR_SECTION ==
    <<Header(SlashJoin(T_config, T_potatoes)), Option(T_x, T_1)>>

\* a key whose rule has a checker RULE_CHECK_MAP does not know
ODD_SECTION == <<Header(T_config), Option(T_odd, T_1)>>

\* a new key of a mapping with a wildcard rule
PATH_SECTION ==
    <<Header(SlashJoin(SlashJoin(T_config, T_paths), T_home)), Option(T_x, T_1)>>

\* a list of scalars, as as_config writes it
COLORS_SECTION ==
    <<Header(SlashJoin(T_config, T_colors)), Option(T_0, T_red)>>

\* a path whose first part nothing answers to and whose later parts name
\* the first element of the list of tags
BOGUS_TAG_SECTION ==
    <<Header(SlashJoin(SlashJoin(SlashJoin(T_config, T_bogus), T_tags), T_0)),
      Option(T_c, T_1)>>

Sections ==
    { LIQUIDS_SECTION, BOGUS_SECTION, BOGUS_VARIABLE_SECTION, BAD_VALUE_SECTION,
      TAG_SECTION, FAR_TAG_SECTION, SCALAR_SECTION, ODD_SECTION, PATH_SECTION,
      COLORS_SECTION, BOGUS_TAG_SECTION }

\* the sections that are loaded two in a text, in both orders
PairedSections ==
    { LIQUIDS_SECTION, BOGUS_SECTION, BOGUS_VARIABLE_SECTION, BAD_VALUE_SECTION,
      TAG_SECTION, SCALAR_SECTION }

LoadTexts ==
    Sections
    \cup {p[1] \o p[2] : p \in {q \in PairedSections \X PairedSections : q[1][1] # q[2][1]}}

TagList(c) == c.data[T_tags]

InitLoad ==
    /\ cfg = ConfigManager
    /\ lst = TagList(ConfigManager)
    /\ ret = NoRet
    /\ log = <<>>

\* cfg.tags.append({'c': 1}): the tree with the list after the append
TagAppended(r) ==
    /\ cfg' = TreeSet(cfg, <<T_tags>>, r.c)
    /\ lst' = r.c
    /\ ret' = [op |-> "append", exc |-> Outcome(r)]
    /\ log' = <<>>

TagsAppend ==
    /\ Len(TagList(cfg).data) < MaxTreeListLen
    /\ TagAppended(append(TagList(cfg), PlainDict(T_c :> Num(1))))

\* what parse_config leaves behind: the tree, the warnings, and in ret the
\* text, the tree before, the value returned (None when it raised) and the
\* exception that left it
Loaded(text, r) ==
    /\ Len(TagList(r.root).data) <= MaxTreeListLen
    /\ cfg' = r.root
    /\ lst' = TagList(r.root)
    /\ log' = r.log
    /\ ret' = [op |-> "parse", text |-> text, before |-> cfg,
               okay |-> IF IsNone(r.exc) THEN Bool(r.okay) ELSE None,
               exc |-> r.exc]

\* cfg.parse_config(session, text)
Load == \E text \in LoadTexts : Loaded(text, parse_config(cfg, text))

NextLoad == TagsAppend \/ Load

SpecLoad == InitLoad /\ [][NextLoad]_vars

(***************************************************************************)
(* Claims about parse_config, under SpecLoad.                              *)
(***************************************************************************)
\* whether the parts name, key by key, a mapping container of the tree
RECURSIVE Resolves(_, _)
Resolves(c, parts) ==
    /\ IsConfigDict(c)
    /\ parts # <<>> =>
          /\ Head(parts) \in DOMAIN c.data
          /\ Resolves(c.data[Head(parts)], Tail(parts))

\* a section whose path names a mapping container of the tree
Resolvable(root, sec) == Resolves(root, cfgpath(sec.name))

\* a section whose path nothing of the tree answers to: its first part is
\* not a key of the root, which has no wildcard rule
Unresolvable(root, sec) ==
    /\ cfgpath(sec.name) # <<>>
    /\ Head(cfgpath(sec.name)) \notin DOMAIN root.data
    /\ ANY \notin DOMAIN root.rules

\* what assigning the n-th pair of a resolvable section answers on the tree
PairOutcome(root, sec, n) ==
    setitem(TreeGet(root, cfgpath(sec.name)),
            CodecItems(sec)[n][1], Txt(CodecItems(sec)[n][2]))

\* a section all of whose pairs pass their rules
AllPairsValid(root, sec) ==
    \A n \in DOMAIN sec.items : PairOutcome(root, sec, n).ok

\* the tree after holds every valid pair of the section, as the rule of its
\* key coerces the value
ValidPairsApplied(before, after, sec) ==
    \A n \in DOMAIN sec.items :
        LET key == CodecItems(sec)[n][1]
            r == PairOutcome(before, sec, n)
            held == TreeGet(after, cfgpath(sec.name)).data
        IN  r.ok => key \in DOMAIN held /\ held[key] = r.c.data[key]

\* C2: loading a text of two sections, one valid (it resolves and all its
\* pairs pass) and one whose path cannot be resolved, in either order,
\* returns False, emits exactly one warning, and leaves the pairs of the
\* valid section applied to the tree.
C2_ValidAndUnresolvable ==
    ret.op = "parse" =>
        LET secs == readfp(ret.text)
        IN  \A v \in DOMAIN secs, u \in DOMAIN secs :
                /\ Len(secs) = 2
                /\ v # u
                /\ Resolvable(ret.before, secs[v])
                /\ AllPairsValid(ret.before, secs[v])
                /\ Unresolvable(ret.before, secs[u])
                => /\ ret.okay = Bool(FALSE)
                   /\ log = <<SectionWarning(secs[u].name)>>
                   /\ ValidPairsApplied(ret.before, cfg, secs[v])

\* whether every section of the text resolves and every pair either passes
\* or fails validation (InvalidKey, InvalidValue), at least one failing
HasFailingPair(root, secs) ==
    /\ \A k \in DOMAIN secs :
          /\ Resolvable(root, secs[k])
          /\ \A n \in DOMAIN secs[k].items :
                \/ PairOutcome(root, secs[k], n).ok
                \/ IsValueError(PairOutcome(root, secs[k], n).err)
    /\ \E k \in DOMAIN secs : ~AllPairsValid(root, secs[k])

\* C3: when a pair fails validation, parse_config records the failure and
\* still applies every later valid pair, of the same section and of every
\* later resolvable section: at return the tree holds every valid pair of
\* every resolvable section, and the result is False.
C3_LaterPairsApplied ==
    ret.op = "parse" /\ HasFailingPair(ret.before, readfp(ret.text)) =>
        /\ ret.okay = Bool(FALSE)
        /\ log # <<>>
        /\ \A k \in DOMAIN readfp(ret.text) :
              ValidPairsApplied(ret.before, cfg, readfp(ret.text)[k])

\* C4: parse_config never aborts: for every text it returns a boolean and
\* no exception reaches the caller.
C4_NeverAborts ==
    ret.op = "parse" => IsNone(ret.exc) /\ IsBool(ret.okay)

\* C5: a section whose path addresses an element the list of tags already
\* holds is applied to that element and creates nothing: the list is as
\* long after the load as before.
C5_ExistingElementNotAppended ==
    /\ ret.op = "parse"
    /\ ret.text = TAG_SECTION
    /\ Len(TagList(ret.before).data) >= 1
    => /\ IsNone(ret.exc)
       /\ Len(TagList(cfg).data) = Len(TagList(ret.before).data)

(***************************************************************************)
(* SpecTrip: a tree is filled with valid data, written with                *)
(* as_config_bytes and read with parse_config into a fresh tree of the     *)
(* same rules.                                                             *)
(***************************************************************************)
\* a text with a blank inside, a ';' after a blank, a '%', a newline and a
\* blank at the end
T_funky == <<"a", " ", ";", "%", "b", NEWLINE, "c", " ">>

\* container, key and value of the valid assignments that fill the tree
BuildInputs ==
    { <<ROOT, T_quiet, Bool(TRUE)>>, <<ROOT, T_quiet, Bool(FALSE)>>,
      <<ROOT, T_debug, Txt(<<>>)>>, <<ROOT, T_debug, Txt(T_funky)>>,
      <<ROOT, T_potatoes, Txt(T_12)>>, <<ROOT, T_color, Txt(T_blue)>>,
      <<<<T_liquids>>, T_vodka, Num(7)>>, <<<<T_paths>>, T_home, Txt(T_tmp)>> }

\* list and value of the valid appends that fill the tree
GrowInputs ==
    { <<<<T_colors>>, Txt(T_red)>>, <<<<T_tags>>, PlainDict(T_c :> Num(1))>> }

InitTrip ==
    /\ cfg = ConfigManager
    /\ lst = TagList(ConfigManager)
    /\ ret = NoRet
    /\ log = <<>>

\* the tree after an operation on the container at path answered r
Built(path, r) ==
    /\ r.ok
    /\ cfg' = TreeSet(cfg, path, r.c)
    /\ lst' = TagList(TreeSet(cfg, path, r.c))
    /\ ret' = [op |-> "build"]
    /\ log' = <<>>

\* cfg[...][key] = value
Build == \E in \in BuildInputs : Built(in[1], setitem(TreeGet(cfg, in[1]), in[2], in[3]))

\* cfg[...].append(value)
Grow ==
    \E in \in GrowInputs :
        /\ Len(TreeGet(cfg, in[1]).data) < MaxTreeListLen
        /\ Built(in[1], append(TreeGet(cfg, in[1]), in[2]))

\* what the load of the written text leaves behind: in ret the text, the
\* fresh tree after the load, the value returned (None when it raised) and
\* the exception that left parse_config
Tripped(text, r) ==
    /\ ret' = [op |-> "trip", text |-> text, root |-> r.root,
               okay |-> IF IsNone(r.exc) THEN Bool(r.okay) ELSE None,
               exc |-> r.exc]
    /\ log' = r.log
    /\ UNCHANGED <<cfg, lst>>

\* the text of the tree, loaded into ConfigManager(rules=CONFIG_RULES)
Reloaded(text) == Tripped(text, parse_config(ConfigManager, text))

\* fresh.parse_config(session, cfg.as_config_bytes())
RoundTrip ==
    /\ as_config_bytes(cfg).ok
    /\ Reloaded(as_config_bytes(cfg).lines)

NextTrip == Build \/ Grow \/ RoundTrip

SpecTrip == InitTrip /\ [][NextTrip]_vars

\* the scalar leaves a container holds: <<path, value>> for every value set
\* that is not a container, with list elements named by their position
RECURSIVE Leaves(_, _)
Leaves(c, prefix) ==
    LET held == IF c.kind = "list" THEN {n - 1 : n \in DOMAIN c.data} ELSE DOMAIN c.data
        at(k) == IF c.kind = "list" THEN c.data[k + 1] ELSE c.data[k]
    IN  {<<prefix \o <<k>>, at(k)>> : k \in {h \in held : ~IsContainer(at(h))}}
        \cup UNION {Leaves(at(k), prefix \o <<k>>) : k \in {h \in held : IsContainer(at(h))}}

\* C1: writing a tree of valid data with as_config_bytes and loading the
\* text with parse_config into a fresh tree of the same rules reproduces
\* every scalar leaf, with the same key and the same typed value.
C1_RoundTrip ==
    ret.op = "trip" =>
        /\ IsNone(ret.exc)
        /\ Leaves(cfg, <<>>) \subseteq Leaves(ret.root, <<>>)

(***************************************************************************)
(* reset. ConfigDict.reset(rules, data) empties self.rules when rules is   *)
(* set; when data is set it calls reset() - with the defaults rules=True,  *)
(* data=True - on every value that has a reset method (the nested          *)
(* containers, which stay) and deletes every other key. ConfigList.reset   *)
(* empties the rules and the list.                                         *)
(***************************************************************************)
RECURSIVE reset(_, _, _)
reset(c, rules, data) ==
    IF c.kind = "list"
    THEN [c EXCEPT !.rules = IF rules THEN <<>> ELSE @,
                   !.data = IF data THEN <<>> ELSE @]
    ELSE [c EXCEPT !.rules = IF rules THEN <<>> ELSE @,
                   !.data = IF data
                            THEN [k \in {x \in DOMAIN @ : IsContainer(@[x])} |->
                                     reset(@[k], TRUE, TRUE)]
                            ELSE @]

\* RC.__init__ with seed data: set_rules(rules), then update(seed)
Construct(kind, name, comment, rules, seed) ==
    update(NewContainer(kind, name, comment, rules), seed)

(***************************************************************************)
(* SpecTree: a tree with containers at depth two, a wildcard mapping of    *)
(* strings, a wildcard mapping of mappings (a dict of rules as checker and *)
(* {} as default), a mapping whose wildcard rule has a mapping as default, *)
(* and a list of mappings that have a nested mapping themselves; written   *)
(* by item assignment, update, the constructor, append, reset and the      *)
(* loader.                                                                 *)
(***************************************************************************)
T_count == <<"c", "o", "u", "n", "t">>

T_mode == <<"m", "o", "d", "e">>

T_port == <<"p", "o", "r", "t">>

T_deep == <<"d", "e", "e", "p">>

T_vault == <<"v", "a", "u", "l", "t">>

T_k == <<"k">>

T_profiles == <<"p", "r", "o", "f", "i", "l", "e", "s">>

T_sub == <<"s", "u", "b">>

T_d == <<"d">>

T_42 == <<"4", "2">>

T_81 == <<"8", "1">>

DEEP_RULES == (T_x :> Rule(<<"X">>, Type("str"), Txt(<<>>)))

SYS_RULES ==
    (T_port :> Rule(<<"P">>, Type("int"), Num(80)))
    @@ (T_deep :> Rule(<<"D">>, PyBool(FALSE), PlainDict(DEEP_RULES)))

SUB_RULES == (T_d :> Rule(<<"D">>, Type("int"), Num(0)))

VAULT_RULES == (ANY :> Rule(<<"A">>, PyBool(FALSE), PlainDict(T_k :> Rule(<<"K">>, Type("int"), Num(0)))))

ELEMENT_RULES ==
    (T_c :> Rule(<<"C">>, Type("int"), Num(0)))
    @@ (T_sub :> Rule(<<"S">>, PyBool(FALSE), PlainDict(SUB_RULES)))

TREE_RULES ==
    (T_count :> Rule(<<"C">>, Tag("int"), Num(0)))
    @@ (T_mode :> Rule(<<"M">>, OneOf({Txt(T_red), Txt(T_blue)}), Txt(T_red)))
    @@ (T_sys :> Rule(<<"S">>, PyBool(FALSE), PlainDict(SYS_RULES)))
    @@ (T_paths :> Rule(<<"P">>, PyBool(FALSE), PlainDict(PATH_RULES)))
    @@ (T_vault :> Rule(<<"V">>, PyBool(FALSE), PlainDict(VAULT_RULES)))
    @@ (T_profiles :> Rule(<<"P">>, Rules(ELEMENT_RULES), PlainDict(<<>>)))
    @@ (T_tags :> Rule(<<"T">>, Rules(ELEMENT_RULES), PlainList(<<>>)))

\* ConfigManager(rules=TREE_RULES)
Tree == NewContainer("dict", T_config, <<>>, TREE_RULES)

\* ConfigDict.all_keys: set(self.keys()) | set(self.rules.keys()) - set(['_any']),
\* where - binds tighter than |; the list returned is in no stated order
all_keys(c) == keys(c) \cup (DOMAIN c.rules \ {ANY})

\* ConfigManager.load: reset(rules=False, data=True), then parse_config of
\* the lines of the file
load(root, lines) == parse_config(reset(root, FALSE, TRUE), lines)

\* container, key and value of the assignments tried on the tree
TreeSetInputs ==
    { <<ROOT, T_count, Txt(T_42)>>, <<ROOT, T_count, Txt(T_moo)>>,
      <<ROOT, T_mode, Txt(T_blue)>>, <<ROOT, T_mode, Txt(T_green)>>,
      <<ROOT, T_evil, Num(123)>>,
      <<<<T_sys>>, T_port, Txt(T_81)>>, <<<<T_sys>>, T_evil, Num(123)>>,
      <<<<T_paths>>, T_evil, Txt(T_woots)>>,
      <<<<T_profiles>>, T_home, PlainDict(T_c :> Num(1))>> }

\* container and mapping of the updates tried
TreeUpdateInputs ==
    { <<ROOT, PlainDict(T_count :> Txt(T_42))>>,
      <<ROOT, PlainDict(T_evil :> Num(123))>>,
      <<<<T_sys>>, PlainDict(T_port :> Num(81))>>,
      <<<<T_sys>>, PlainDict(T_evil :> Num(123))>> }

\* RuleSet and seed data of the containers constructed
ConstructInputs ==
    { <<SYS_RULES, PlainDict(T_port :> Txt(T_81))>>,
      <<SYS_RULES, PlainDict(T_evil :> Num(123))>>,
      <<PATH_RULES, PlainDict(T_evil :> Txt(T_woots))>>,
      <<SYS_RULES, PlainDict(<<>>)>> }

SYS_SECTION == <<Header(SlashJoin(T_config, T_sys)), Option(T_port, T_81)>>

SYS_EVIL_SECTION == <<Header(SlashJoin(T_config, T_sys)), Option(T_evil, T_5)>>

DEEP_SECTION ==
    <<Header(SlashJoin(SlashJoin(T_config, T_sys), T_deep)), Option(T_x, T_woots)>>

ELEMENT_SECTION ==
    <<Header(SlashJoin(SlashJoin(T_config, T_tags), T_0)), Option(T_c, T_5)>>

PROFILE_SECTION ==
    <<Header(SlashJoin(SlashJoin(T_config, T_profiles), T_home)), Option(T_c, T_5)>>

COUNT_SECTION == <<Header(T_config), Option(T_count, T_42)>>

\* the config texts loaded into the tree
TreeTexts ==
    { SYS_SECTION, SYS_EVIL_SECTION, DEEP_SECTION, ELEMENT_SECTION, PROFILE_SECTION,
      COUNT_SECTION }

InitTree ==
    /\ cfg = Tree
    /\ lst = TagList(Tree)
    /\ ret = NoRet
    /\ log = <<>>

\* what an operation on one container of the tree leaves behind
TreeDone(path, r, result) ==
    /\ cfg' = TreeSet(cfg, path, r.c)
    /\ lst' = TagList(TreeSet(cfg, path, r.c))
    /\ ret' = result @@ [path |-> path, exc |-> Outcome(r)]
    /\ log' = <<>>

\* cfg[...][key] = value
SetKey ==
    \E in \in TreeSetInputs :
        TreeDone(in[1], setitem(TreeGet(cfg, in[1]), in[2], in[3]),
                 [op |-> "set", key |-> in[2], arg |-> in[3]])

\* cfg[...].update(mapping)
UpdateFrom ==
    \E in \in TreeUpdateInputs :
        TreeDone(in[1], update(TreeGet(cfg, in[1]), in[2]),
                 [op |-> "update", arg |-> in[2]])

\* cfg.tags.append({'c': 1})
AppendElement ==
    /\ Len(TagList(cfg).data) < MaxTreeListLen
    /\ TreeDone(<<T_tags>>, append(TagList(cfg), PlainDict(T_c :> Num(1))),
                [op |-> "append"])

\* ConfigDict(seed, _rules=rules): the tree is left alone
Constructed(rules, seed, r) ==
    /\ ret' = [op |-> "construct", rules |-> rules, arg |-> seed,
               v |-> IF r.ok THEN r.c ELSE None, exc |-> Outcome(r)]
    /\ log' = <<>>
    /\ UNCHANGED <<cfg, lst>>

ConstructSeeded ==
    \E in \in ConstructInputs :
        Constructed(in[1], in[2], Construct("dict", T_config, <<>>, in[1], in[2]))

\* cfg.reset(rules=False, data=True)
ResetData ==
    /\ cfg' = reset(cfg, FALSE, TRUE)
    /\ lst' = TagList(reset(cfg, FALSE, TRUE))
    /\ ret' = [op |-> "reset"]
    /\ log' = <<>>

\* what parse_config leaves behind in the tree, the warnings and ret
TreeLoaded(op, text, r) ==
    /\ Len(TagList(r.root).data) <= MaxTreeListLen
    /\ cfg' = r.root
    /\ lst' = TagList(r.root)
    /\ log' = r.log
    /\ ret' = [op |-> op, text |-> text,
               okay |-> IF IsNone(r.exc) THEN Bool(r.okay) ELSE None,
               exc |-> r.exc]

\* cfg.parse_config(session, text)
ParseText == \E text \in TreeTexts : TreeLoaded("parse", text, parse_config(cfg, text))

\* cfg.load(session) of a file with the text
LoadFile == \E text \in TreeTexts : TreeLoaded("load", text, load(cfg, text))

\* cfg[...].all_keys()
AllKeys ==
    \E path \in {ROOT, <<T_sys>>, <<T_paths>>, <<T_vault>>} :
        /\ ret' = [op |-> "all_keys", path |-> path, v |-> all_keys(TreeGet(cfg, path))]
        /\ log' = <<>>
        /\ UNCHANGED <<cfg, lst>>

NextTree ==
    \/ AllKeys
    \/ SetKey
    \/ UpdateFrom
    \/ AppendElement
    \/ ConstructSeeded
    \/ ResetData
    \/ ParseText
    \/ LoadFile

SpecTree == InitTree /\ [][NextTree]_vars

\* every container of a tree, the root included
RECURSIVE Containers(_)
Containers(c) ==
    {c} \cup UNION { Containers(c.data[k]) :
                        k \in {x \in DOMAIN c.data : IsContainer(c.data[x])} }

Wildcard(c) == ANY \in DOMAIN c.rules

\* a mapping container without a wildcard rule stores declared keys only
DeclaredKeysOnly(c) ==
    (c.kind = "dict" /\ ~Wildcard(c)) => DOMAIN c.data \subseteq DOMAIN c.rules

\* the write in ret names, for a container without a wildcard rule, a key
\* that its RuleSet does not declare
UndeclaredWrite ==
    \/ /\ ret.op = "set"
       /\ ~Wildcard(TreeGet(cfg, ret.path))
       /\ ret.key \notin DOMAIN TreeGet(cfg, ret.path).rules
    \/ /\ ret.op = "update"
       /\ ~Wildcard(TreeGet(cfg, ret.path))
       /\ ~(DOMAIN ret.arg.d \subseteq DOMAIN TreeGet(cfg, ret.path).rules)
    \/ /\ ret.op = "construct"
       /\ ANY \notin DOMAIN ret.rules
       /\ ~(DOMAIN ret.arg.d \subseteq DOMAIN ret.rules)

\* C11: in every reachable state a mapping container without a wildcard rule
\* stores only keys its RuleSet declares: a write to an undeclared key by item
\* assignment, update or constructor seed data raises InvalidKeyError, the
\* loader answers it with a warning, and nothing is stored; a wildcard
\* container accepts a write to any key.
C11_StoredKeysDeclared ==
    /\ \A c \in Containers(cfg) : DeclaredKeysOnly(c)
    /\ (ret.op = "construct" /\ IsContainer(ret.v)) => DeclaredKeysOnly(ret.v)
    /\ UndeclaredWrite =>
          /\ ~IsNone(ret.exc)
          /\ ret.exc.exc = "InvalidKeyError"
    /\ (ret.op = "parse" /\ ret.text = SYS_EVIL_SECTION) =>
          /\ ret.okay = Bool(FALSE)
          /\ T_evil \notin DOMAIN cfg.data[T_sys].data
    /\ (ret.op = "set" /\ ret.path = <<T_paths>> /\ Wildcard(cfg.data[T_paths])) =>
          /\ IsNone(ret.exc)
          /\ cfg.data[T_paths].data[ret.key] = ret.arg

\* the rule a container applies to a key it stores
StoredRule(c, k) ==
    IF c.kind = "dict" /\ k \in DOMAIN c.rules THEN c.rules[k] ELSE c.rules[ANY]

\* the value is one the checker lets through unchanged
Passed(checker, v) ==
    \/ checker = PyBool(TRUE)
    \/ checker.c = "set" /\ v \in checker.m
    \/ checker.c = "type" /\ checker.f = "int" /\ IsInt(v)
    \/ checker.c = "type" /\ checker.f = "unicode" /\ IsText(v)
    \/ checker.c = "type" /\ checker.f = "bool" /\ IsBool(v)

\* every scalar a container stores has passed the checker of its rule
ScalarsChecked(c) ==
    \A k \in DOMAIN c.data :
        ~IsContainer(c.data[k]) =>
            /\ c.rules # <<>>
            /\ Passed(StoredRule(c, k).checker, c.data[k])

\* an assignment or append that raised leaves the tree as it was, and raises
\* ValueError when the key is covered by the RuleSet
RejectedWriteKeepsValue ==
    (ret'.op \in {"set", "append"} /\ ~IsNone(ret'.exc)) =>
        /\ cfg' = cfg
        /\ IsValueError(ret'.exc)
        /\ (ret'.op = "set" /\ (Wildcard(TreeGet(cfg, ret'.path))
                                \/ ret'.key \in DOMAIN TreeGet(cfg, ret'.path).rules))
              => (ret'.exc.exc = "ValueError")

\* C12: every scalar stored in a container of the tree has passed its rule's
\* checker - the output of a coercion checker ("42" is stored as 42), a member
\* of a fixed value set - and a write the checker rejects raises ValueError
\* (InvalidValue) and leaves the value stored before in place.
C12_StoredValuesChecked ==
    /\ [](/\ \A c \in Containers(cfg) : ScalarsChecked(c)
          /\ (ret.op = "set" /\ IsNone(ret.exc) /\ ret.arg = Txt(T_42)) =>
                 TreeGet(cfg, ret.path).data[ret.key] = Num(42)
          /\ (ret.op = "set" /\ ret.arg \in {Txt(T_moo), Txt(T_green)}) =>
                 ~IsNone(ret.exc))
    /\ [][RejectedWriteKeepsValue]_vars

\* count = 'moo' was rejected after count = '42' had been stored, and a
\* member of the value set is stored too
C12_Witness ==
    /\ ret.op = "set" /\ ret.key = T_count /\ ret.arg = Txt(T_moo)
    /\ ~IsNone(ret.exc)
    /\ T_count \in DOMAIN cfg.data /\ cfg.data[T_count] = Num(42)
    /\ T_mode \in DOMAIN cfg.data /\ cfg.data[T_mode] = Txt(T_blue)

\* the container has registered a rule whose checker is a tag that
\* RULE_CHECK_MAP does not know
HoldsUnknownTag(c) == \E k \in DOMAIN c.rules : c.rules[k].checker.c = "tag"

\* C13: a RuleSet whose scalar rule names an unknown checker tag fails at
\* registration: an assignment never meets a container that has registered a
\* rule with an unknown tag, and is never the point where an unknown tag is
\* detected.
C13_UnknownTagFailsAtRegistration ==
    ret.op = "set" =>
        /\ ~HoldsUnknownTag(TreeGet(cfg, ret.path))
        /\ ~IsNone(ret.exc) => ret.exc.what # "Unknown constraint"

(***************************************************************************)
(* SpecAttr: the same keys written and read as items and as attributes.    *)
(***************************************************************************)
\* container, name and value of the writes tried in both forms
AttrInputs ==
    { <<ROOT, T_count, Txt(T_42)>>, <<ROOT, T_count, Txt(T_moo)>>,
      <<ROOT, T_count, Num(7)>>, <<ROOT, T_mode, Txt(T_blue)>>,
      <<<<T_sys>>, T_port, Txt(T_81)>>, <<<<T_paths>>, T_home, Txt(T_tmp)>> }

\* cfg[...][name] = value
AssignItem ==
    \E in \in AttrInputs :
        TreeDone(in[1], setitem(TreeGet(cfg, in[1]), in[2], in[3]),
                 [op |-> "set", key |-> in[2], arg |-> in[3]])

\* cfg[...].name = value
AssignAttr ==
    \E in \in AttrInputs :
        TreeDone(in[1], setattr(TreeGet(cfg, in[1]), in[2], in[3]),
                 [op |-> "setattr", key |-> in[2], arg |-> in[3]])

\* cfg[...].name and cfg[...][name], read in the same state
ReadName ==
    \E in \in AttrInputs :
        /\ ret' = [op |-> "read", path |-> in[1], key |-> in[2],
                   attr |-> getattr(TreeGet(cfg, in[1]), in[2]),
                   item |-> getitem(TreeGet(cfg, in[1]), in[2])]
        /\ log' = <<>>
        /\ UNCHANGED <<cfg, lst>>

NextAttr == AssignItem \/ AssignAttr \/ ReadName

SpecAttr == InitTree /\ [][NextAttr]_vars

\* the RuleSet covers the name, by an explicit key or by the wildcard rule
Covered(c, name) == name \in DOMAIN c.rules \/ Wildcard(c)

\* c.name = v did to the tree what c[name] = v does, and raised what it raises
AttrWriteAsItemWrite ==
    (ret'.op = "setattr" /\ Covered(TreeGet(cfg, ret'.path), ret'.key)) =>
        /\ cfg' = TreeSet(cfg, ret'.path,
                          setitem(TreeGet(cfg, ret'.path), ret'.key, ret'.arg).c)
        /\ ret'.exc = Outcome(setitem(TreeGet(cfg, ret'.path), ret'.key, ret'.arg))

\* C14: for every name the RuleSet covers, by an explicit key or by the
\* wildcard rule, c.name = v has the outcome of c[name] = v (the same stored
\* value or the same rejection), and c.name reads what c[name] reads, after
\* any sequence of writes of either form.
C14_AttributeAsItem ==
    /\ [][AttrWriteAsItemWrite]_vars
    /\ []((ret.op = "read" /\ Covered(TreeGet(cfg, ret.path), ret.key)) =>
             ret.attr = ret.item)

\* C15: all_keys() returns exactly the materialized keys and the declared
\* keys without the wildcard marker: '_any' is never in the result, also when
\* the wildcard rule has a mapping or a list as default.
C15_AllKeysWithoutAny ==
    ret.op = "all_keys" =>
        /\ ret.v = (DOMAIN TreeGet(cfg, ret.path).data
                    \cup DOMAIN TreeGet(cfg, ret.path).rules) \ {ANY}
        /\ ANY \notin ret.v

(***************************************************************************)
(* SpecCodec: one value written through CommentedEscapedConfigParser.set,  *)
(* emitted by write, read by readfp and handed out by items.               *)
(***************************************************************************)
\* the characters the values are made of: a letter, the blank, the
\* characters the file format gives a meaning to, and the newline
CodecAlphabet == {"a", " ", ";", "%", "=", NEWLINE}

CodecValues == UNION { [1..n -> CodecAlphabet] : n \in 0..MaxValueLen }

CodecComments == {<<>>, <<"C">>}

\* cecp.add_section(section); cecp.set(section, key, value, comment);
\* cecp.write(fd); a fresh parser's readfp(fd) and items(section)
Transcoded(section, key, value, comment) ==
    CodecItems(readfp(WriteLines(
        CodecSet(add_section(<<>>, section), section, key, value, comment)))[1])

\* the value and the comment to be written
InitCodec ==
    /\ cfg = ConfigManager
    /\ lst = TagList(ConfigManager)
    /\ ret \in [op : {"input"}, value : CodecValues, comment : CodecComments]
    /\ log = <<>>

Transcode ==
    /\ ret.op = "input"
    /\ ret' = [op |-> "codec", value |-> ret.value, comment |-> ret.comment,
               items |-> Transcoded(T_config, T_key, ret.value, ret.comment)]
    /\ UNCHANGED <<cfg, lst, log>>

NextCodec == Transcode

SpecCodec == InitCodec /\ [][NextCodec]_vars

\* C16: every string value - with newlines, ';', '%', '=', leading or
\* trailing blanks - written through the codec's set, emitted as text and
\* read back through items is the value written, with and without an inline
\* comment.
C16_CodecRoundTrip ==
    ret.op = "codec" => ret.items = <<<<T_key, ret.value>>>>

\* the RuleSet of a container and of the containers its keys hold, at every
\* depth (the elements of a list are data)
RECURSIVE NestedRules(_)
NestedRules(c) ==
    [rules |-> c.rules,
     nested |-> IF c.kind = "list" THEN <<>>
                ELSE [k \in {x \in DOMAIN c.data : IsContainer(c.data[x])} |->
                         NestedRules(c.data[k])]]

\* the scalars are gone, every RuleSet is as before, and the assignment
\* sys.port = '81' that was valid before is valid after
ResetKeepsRules ==
    ret'.op = "reset" =>
        /\ \A c \in Containers(cfg') : \A k \in DOMAIN c.data : IsContainer(c.data[k])
        /\ NestedRules(cfg') = NestedRules(cfg)
        /\ setitem(cfg.data[T_sys], T_port, Txt(T_81)).ok
              => setitem(cfg'.data[T_sys], T_port, Txt(T_81)).ok

\* C17: reset(rules=False, data=True) clears the stored values and leaves the
\* RuleSet of the container and of every nested container, at every depth,
\* as it was: a key valid in a nested container before is accepted after.
C17_ResetKeepsRules == [][ResetKeepsRules]_vars

\* the keys under which a container holds containers, as TreeGet takes them
ChildKeys(c) ==
    IF c.kind = "list" THEN {n - 1 : n \in {x \in DOMAIN c.data : IsContainer(c.data[x])}}
    ELSE {x \in DOMAIN c.data : IsContainer(c.data[x])}

\* the paths of the containers of a tree, the root's being <<>>
RECURSIVE ContainerPaths(_)
ContainerPaths(c) ==
    {<<>>} \cup UNION { { <<k>> \o p : p \in ContainerPaths(TreeGet(c, <<k>>)) } :
                          k \in ChildKeys(c) }

\* the key as it appears in a section path: the key of a mapping, the
\* lowercase base-36 address of a list element
PathSegment(c, k) == IF c.kind = "list" THEN b36(k) ELSE k

\* the children of the container are named <its name>/<key>
ChildrenNamed(c) ==
    \A k \in ChildKeys(c) : TreeGet(c, <<k>>).name = SlashJoin(c.name, PathSegment(c, k))

\* C18: every container reachable from the root is named <parent's name>/<key>
\* with the key or the lowercase base-36 address under which the parent holds
\* it, at every depth, however it was created (rule registration, assignment
\* into a wildcard mapping, list append, the loader); so no two distinct
\* containers of the tree have the same section path.
C18_NamedByPath ==
    /\ cfg.name = T_config
    /\ \A p \in ContainerPaths(cfg) : ChildrenNamed(TreeGet(cfg, p))
    /\ \A p, q \in ContainerPaths(cfg) :
          p # q => TreeGet(cfg, p).name # TreeGet(cfg, q).name

(***************************************************************************)
(* The objects behind the containers. Above, a container is a value; here  *)
(* the rule lists, the dicts of rules, the list defaults and the           *)
(* containers are objects of a heap - a sequence, an object's id being its *)
(* position - so that the code's copies (list(rule[:]), rule[:], the dicts *)
(* it creates) and its references to what it was handed can be told apart. *)
(*   [t |-> "rule", comment, checker, default]   a rule list               *)
(*   [t |-> "dict", d]        a dict of rules: key -> id of a rule list    *)
(*   [t |-> "list", l]        a plain list                                 *)
(*   [t |-> "container", kind, name, rules, data]                          *)
(*       rules is the id of the dict self.rules, data the stored values    *)
(* A checker is a value as above, or [dict |-> id] (a dict of rules), or   *)
(* [cls |-> id] (the class of _MakeCheck, its _RULES being that dict); a   *)
(* default or stored value is a scalar or [ref |-> id].                    *)
(***************************************************************************)
RuleObject(comment, checker, default) ==
    [t |-> "rule", comment |-> comment, checker |-> checker, default |-> default]

DictObject(d) == [t |-> "dict", d |-> d]

ListObject(l) == [t |-> "list", l |-> l]

ContainerObject(kind, name, rules, data) ==
    [t |-> "container", kind |-> kind, name |-> name, rules |-> rules, data |-> data]

Ref(id) == [ref |-> id]

IsRef(v) == "ref" \in DOMAIN v

IsDictChecker(check) == "dict" \in DOMAIN check

\* The heap that holds a RuleSet as the caller wrote it: the dict is the
\* last object allocated, after its rule lists and what they refer to.
RECURSIVE AllocDict(_, _, _, _)
RECURSIVE AllocRule(_, _)
AllocChecker(h, rule) ==
    IF rule.checker.c = "rules"
    THEN AllocDict(h, rule.checker.rules, DOMAIN rule.checker.rules, <<>>)
    ELSE h

AllocDefault(h, rule) ==
    IF IsPlainDict(rule.default)
    THEN AllocDict(h, rule.default.d, DOMAIN rule.default.d, <<>>)
    ELSE IF IsPlainList(rule.default) THEN Append(h, ListObject(<<>>))
    ELSE h

AllocRuleList(h, rule, checker) ==
    Append(h, RuleObject(rule.comment, checker,
                         IF IsPlainDict(rule.default) \/ IsPlainList(rule.default)
                         THEN Ref(Len(h)) ELSE rule.default))

AllocCheckerDone(h, rule) ==
    AllocRuleList(AllocDefault(h, rule), rule,
                  IF rule.checker.c = "rules" THEN [dict |-> Len(h)] ELSE rule.checker)

AllocRule(h, rule) == AllocCheckerDone(AllocChecker(h, rule), rule)

AllocRuleDone(h, rules, rest, d, k) == AllocDict(h, rules, rest, Put(d, k, Len(h)))

AllocDict(h, rules, todo, d) ==
    IF todo = {} THEN Append(h, DictObject(d))
    ELSE AllocRuleDone(AllocRule(h, rules[CHOOSE k \in todo : TRUE]), rules,
                       todo \ {CHOOSE k \in todo : TRUE}, d, CHOOSE k \in todo : TRUE)

\* the RuleSet two containers are built from
SHARE_RULES ==
    (T_count :> Rule(<<"C">>, Tag("int"), Num(0)))
    @@ (T_sys :> Rule(<<"S">>, PyBool(FALSE),
                      PlainDict(T_port :> Rule(<<"P">>, Type("int"), Num(80)))))
    @@ (T_tags :> Rule(<<"T">>, Rules(T_c :> Rule(<<"C">>, Type("int"), Num(0))),
                       PlainList(<<>>)))
    @@ (T_colors :> Rule(<<"C">>, OneOf({Txt(T_red), Txt(T_blue)}), PlainList(<<>>)))
    @@ (T_profiles :> Rule(<<"P">>, Rules(T_c :> Rule(<<"C">>, Type("int"), Num(0))),
                           PlainDict(<<>>)))

\* the heap before any container is built; the RuleSet is its last object
RULESET_HEAP == AllocDict(<<>>, SHARE_RULES, DOMAIN SHARE_RULES, <<>>)

\* an add_rule that registers the rule list it was handed
CopyRule_Alias(h, rule) == [h |-> h, id |-> rule]

\* rule = list(rule[:]) (line 307): the heap with the copy, and the copy's id
CopyRule(h, rule) == [h |-> Append(h, h[rule]), id |-> Len(h) + 1]

\* check_rule = rule[:], its default None and its checker the class of
\* _MakeCheck; check_rule = {'_any': check_rule} (lines 329-335)
WithCheckRule(h, rule, check) ==
    IF IsDictChecker(check)
    THEN Append(Append(h, [h[rule] EXCEPT !.default = None,
                                          !.checker = [cls |-> check.dict]]),
                DictObject(ANY :> (Len(h) + 1)))
    ELSE h

\* {'_any': [rule[self.RULE_COMMENT], check, None]} (lines 346-348)
WithElementRule(h, rule, check) ==
    Append(Append(h, RuleObject(h[rule].comment, check, None)),
           DictObject(ANY :> (Len(h) + 1)))

\* pcls.__setitem__(self, key, child)
ChildStored(h, c, key, child) == [h EXCEPT ![c].data = Put(@, key, Ref(child))]

RECURSIVE heap_set_rules(_, _, _, _)
\* RC.__init__ (230-241): the new container is the first object allocated,
\* the dict self.rules = {} of its reset() the second; then set_rules
heap_construct(h, kind, name, rules) ==
    heap_set_rules(Append(Append(h, ContainerObject(kind, name, Len(h) + 2, <<>>)),
                          DictObject(<<>>)),
                   Len(h) + 1, rules, DOMAIN h[rules].d)

\* RC.add_rule (303-355) on the container c, for the rule list rule0
heap_add_rule(h, c, key, rule0) ==
    LET cp == CopyRule(h, rule0)
        rule == cp.id
        h1 == [cp.h EXCEPT ![cp.h[c].rules].d = Put(@, key, rule)]
        check == IF "c" \in DOMAIN h1[rule].checker
                 THEN RULE_CHECK_MAP(h1[rule].checker) ELSE h1[rule].checker
        h2 == [h1 EXCEPT ![rule].checker = check]
        value == h2[rule].default
        name == SlashJoin(h2[c].name, key)
        h3 == WithCheckRule(h2, rule, check)
        h4 == [h3 EXCEPT ![rule].checker = PyBool(FALSE)]
    IN  IF ~IsRef(value) THEN h3
        ELSE IF h2[value.ref].t = "dict"
        THEN ChildStored(heap_construct(h4, "dict", name,
                                        IF IsDictChecker(check) THEN Len(h4) ELSE value.ref),
                         c, key, Len(h4) + 1)
        ELSE IF IsDictChecker(check)
        THEN ChildStored(heap_construct(h4, "list", name, Len(h4)), c, key, Len(h4) + 1)
        ELSE ChildStored(heap_construct(WithElementRule(h4, rule, check), "list", name,
                                        Len(h4) + 2),
                         c, key, Len(h4) + 3)

\* RC.set_rules after reset(): add_rule for every key of the rules
heap_set_rules(h, c, rules, todo) ==
    IF todo = {} THEN h
    ELSE heap_set_rules(heap_add_rule(h, c, CHOOSE k \in todo : TRUE,
                                      h[rules].d[CHOOSE k \in todo : TRUE]),
                        c, rules, todo \ {CHOOSE k \in todo : TRUE})

\* the id of the rule list get_rule finds for the key, 0 when it raises
\* InvalidKeyError
heap_get_rule(h, c, key) ==
    IF key \in DOMAIN h[h[c].rules].d THEN h[h[c].rules].d[key]
    ELSE IF ANY \in DOMAIN h[h[c].rules].d THEN h[h[c].rules].d[ANY]
    ELSE 0

RECURSIVE heap_update(_, _, _, _)
\* the new container the class of _MakeCheck makes of a value: CD(value),
\* i.e. RC.__init__ with the value as seed data; it is the object Len(h) + 1
heap_checked(h, checker, value) ==
    heap_update(heap_construct(h, "dict", T_config, checker.cls), Len(h) + 1,
                value.d, DOMAIN value.d)

\* whether RC.__setitem__ stores the value: the key has a rule and the
\* checks of lines 411-427 pass
heap_accepts(h, c, key, value) ==
    /\ heap_get_rule(h, c, key) # 0
    /\ IF "cls" \in DOMAIN h[heap_get_rule(h, c, key)].checker
       THEN IsPlainDict(value) /\ heap_checked(h, h[heap_get_rule(h, c, key)].checker, value).ok
       ELSE /\ "c" \in DOMAIN h[heap_get_rule(h, c, key)].checker
            /\ CheckValue(h[heap_get_rule(h, c, key)].checker, <<>>, value).ok

\* RC.__setitem__ on a mapping container: the heap after it, with the store
\* of line 429 when the value was accepted
heap_setitem(h, c, key, value) ==
    IF ~heap_accepts(h, c, key, value) THEN h
    ELSE IF "cls" \in DOMAIN h[heap_get_rule(h, c, key)].checker
    THEN [heap_checked(h, h[heap_get_rule(h, c, key)].checker, value).h
             EXCEPT ![c].data = Put(@, key, Ref(Len(h) + 1))]
    ELSE [h EXCEPT ![c].data =
             Put(@, key, CheckValue(h[heap_get_rule(h, c, key)].checker, <<>>, value).v)]

\* ConfigDict.update with a mapping: self[key] = src[key] for each key,
\* until one raises
heap_update(h, c, src, todo) ==
    IF todo = {} THEN [h |-> h, ok |-> TRUE]
    ELSE IF ~heap_accepts(h, c, CHOOSE k \in todo : TRUE, src[CHOOSE k \in todo : TRUE])
    THEN [h |-> h, ok |-> FALSE]
    ELSE heap_update(heap_setitem(h, c, CHOOSE k \in todo : TRUE,
                                  src[CHOOSE k \in todo : TRUE]),
                     c, src, todo \ {CHOOSE k \in todo : TRUE})

\* ConfigList.append (461-468): the element the checker makes of the value
\* is renamed by __passkey__ and stored; a rejected value leaves the list
heap_append(h, c, value) ==
    IF ~heap_accepts(h, c, ANY, value) THEN h
    ELSE IF "cls" \in DOMAIN h[heap_get_rule(h, c, ANY)].checker
    THEN [heap_checked(h, h[heap_get_rule(h, c, ANY)].checker, value).h
             EXCEPT ![c].data = Append(@, Ref(Len(h) + 1)),
                    ![Len(h) + 1].name = SlashJoin(h[c].name, b36(Len(h[c].data)))]
    ELSE [h EXCEPT ![c].data =
             Append(@, CheckValue(h[heap_get_rule(h, c, ANY)].checker, <<>>, value).v)]

\* ConfigList.extend: append for each value, until one raises
RECURSIVE heap_extend(_, _, _)
heap_extend(h, c, src) ==
    IF src = <<>> \/ ~heap_accepts(h, c, ANY, Head(src)) THEN h
    ELSE heap_extend(heap_append(h, c, Head(src)), c, Tail(src))

\* self.rules = {} (lines 594, 457): a new dict, the old one is let go
heap_reset_rules(h, c, rules) ==
    IF rules THEN [Append(h, DictObject(<<>>)) EXCEPT ![c].rules = Len(h) + 1] ELSE h

\* ConfigDict.reset (592-600) and ConfigList.reset (455-459)
RECURSIVE heap_reset(_, _, _, _)
RECURSIVE heap_reset_data(_, _, _)
heap_reset_data(h, c, todo) ==
    IF todo = {} THEN h
    ELSE IF IsRef(h[c].data[CHOOSE k \in todo : TRUE])
    THEN heap_reset_data(heap_reset(h, h[c].data[CHOOSE k \in todo : TRUE].ref, TRUE, TRUE),
                         c, todo \ {CHOOSE k \in todo : TRUE})
    ELSE heap_reset_data([h EXCEPT ![c].data =
                             [x \in DOMAIN @ \ {CHOOSE k \in todo : TRUE} |-> @[x]]],
                         c, todo \ {CHOOSE k \in todo : TRUE})

heap_reset(h, c, rules, data) ==
    IF ~data THEN heap_reset_rules(h, c, rules)
    ELSE IF h[c].kind = "list"
    THEN [heap_reset_rules(h, c, rules) EXCEPT ![c].data = <<>>]
    ELSE heap_reset_data(heap_reset_rules(h, c, rules), c, DOMAIN h[c].data)

\* parse_config of '[config/sys]', 'port = 81', '[config/tags/0]', 'c = 5':
\* cfg = self.sys; cfg['port'] = '81'; cfg = self.tags; cfg.append({}) when
\* it has no element 0 and can have one; cfg = cfg['0']; cfg['c'] = '5'
heap_parse_element(h, tags) ==
    IF h[tags].data = <<>> THEN h
    ELSE heap_setitem(h, h[tags].data[1].ref, T_c, Txt(T_5))

heap_parse_config(h, c) ==
    heap_parse_element(
        IF h[h[c].data[T_tags].ref].data = <<>>
        THEN heap_append(heap_setitem(h, h[c].data[T_sys].ref, T_port, Txt(T_81)),
                         h[c].data[T_tags].ref, PlainDict(<<>>))
        ELSE heap_setitem(h, h[c].data[T_sys].ref, T_port, Txt(T_81)),
        h[c].data[T_tags].ref)

(***************************************************************************)
(* SpecShare: two containers built from one RuleSet object, and written.   *)
(* Here cfg is [heap, a, b]: the heap and the ids of the two containers (0 *)
(* before a container is built); the RuleSet is the object RULESET.        *)
(***************************************************************************)
RULESET == Len(RULESET_HEAP)

InitShare ==
    /\ cfg = [heap |-> RULESET_HEAP, a |-> 0, b |-> 0]
    /\ lst = TagList(ConfigManager)
    /\ ret = NoRet
    /\ log = <<>>

\* the heap an operation leaves, within the bound of the model
Shared(op, on, h) ==
    /\ Len(h) <= MaxHeap
    /\ cfg' = [cfg EXCEPT !.heap = h]
    /\ ret' = [op |-> op, on |-> on]
    /\ UNCHANGED <<lst, log>>

\* a = ConfigManager(rules=RULESET), then b = ConfigManager(rules=RULESET)
ShareBuild ==
    /\ cfg.b = 0
    /\ cfg' = [heap |-> heap_construct(cfg.heap, "dict", T_config, RULESET),
               a |-> IF cfg.a = 0 THEN Len(cfg.heap) + 1 ELSE cfg.a,
               b |-> IF cfg.a = 0 THEN 0 ELSE Len(cfg.heap) + 1]
    /\ ret' = [op |-> "build", on |-> IF cfg.a = 0 THEN "a" ELSE "b"]
    /\ UNCHANGED <<lst, log>>

BuiltOnes == {x \in {"a", "b"} : cfg[x] # 0}

\* x['count'] = '42', x['count'] = 'moo'
ShareSet ==
    \E x \in BuiltOnes, value \in {Txt(T_42), Txt(T_moo)} :
        Shared("set", x, heap_setitem(cfg.heap, cfg[x], T_count, value))

\* x.update({'count': 7})
ShareUpdate ==
    \E x \in BuiltOnes :
        Shared("update", x,
               heap_update(cfg.heap, cfg[x], T_count :> Num(7), {T_count}).h)

\* x.tags.append({'c': 1})
ShareAppend ==
    \E x \in BuiltOnes :
        Shared("append", x,
               heap_append(cfg.heap, cfg.heap[cfg[x]].data[T_tags].ref,
                           PlainDict(T_c :> Num(1))))

\* x.tags.extend([{'c': 1}, {'evil': 1}])
ShareExtend ==
    \E x \in BuiltOnes :
        Shared("extend", x,
               heap_extend(cfg.heap, cfg.heap[cfg[x]].data[T_tags].ref,
                           <<PlainDict(T_c :> Num(1)), PlainDict(T_evil :> Num(1))>>))

\* x.reset(rules=False, data=True)
ShareReset ==
    \E x \in BuiltOnes : Shared("reset", x, heap_reset(cfg.heap, cfg[x], FALSE, TRUE))

\* x.parse_config(session, '[config/sys]\nport = 81\n[config/tags/0]\nc = 5\n')
ShareParse ==
    \E x \in BuiltOnes : Shared("parse", x, heap_parse_config(cfg.heap, cfg[x]))

NextShare ==
    \/ ShareBuild
    \/ ShareSet
    \/ ShareUpdate
    \/ ShareAppend
    \/ ShareExtend
    \/ ShareReset
    \/ ShareParse

SpecShare == InitShare /\ [][NextShare]_vars

\* the ids an object refers to
RefsOf(obj) ==
    CASE obj.t = "rule" ->
            (IF IsDictChecker(obj.checker) THEN {obj.checker.dict} ELSE {})
            \cup (IF "cls" \in DOMAIN obj.checker THEN {obj.checker.cls} ELSE {})
            \cup (IF IsRef(obj.default) THEN {obj.default.ref} ELSE {})
      [] obj.t = "dict" -> {obj.d[k] : k \in DOMAIN obj.d}
      [] obj.t = "list" -> {}
      [] obj.t = "container" ->
            {obj.rules} \cup {obj.data[k].ref : k \in {x \in DOMAIN obj.data : IsRef(obj.data[x])}}

\* the objects reachable from the objects todo
RECURSIVE Reach(_, _, _)
Reach(h, todo, seen) ==
    IF todo \subseteq seen THEN seen
    ELSE Reach(h, UNION {RefsOf(h[i]) : i \in todo \ seen}, seen \cup todo)

\* the objects of the RuleSet as passed in: those the heap began with
RuleSetObjects == DOMAIN RULESET_HEAP

\* the objects a container reaches that are not the RuleSet's
Owned(h, c) == Reach(h, {c}, {}) \ RuleSetObjects

\* an object as it looks to a reader: every reference followed
RECURSIVE View(_, _)
View(h, id) ==
    CASE h[id].t = "rule" ->
            [comment |-> h[id].comment,
             checker |-> IF IsDictChecker(h[id].checker) THEN View(h, h[id].checker.dict)
                         ELSE IF "cls" \in DOMAIN h[id].checker
                         THEN View(h, h[id].checker.cls)
                         ELSE h[id].checker,
             default |-> IF IsRef(h[id].default) THEN View(h, h[id].default.ref)
                         ELSE h[id].default]
      [] h[id].t = "dict" -> [k \in DOMAIN h[id].d |-> View(h, h[id].d[k])]
      [] h[id].t = "list" -> h[id].l
      [] h[id].t = "container" ->
            [name |-> h[id].name, rules |-> View(h, h[id].rules),
             data |-> [k \in DOMAIN h[id].data |->
                          IF IsRef(h[id].data[k]) THEN View(h, h[id].data[k].ref)
                          ELSE h[id].data[k]]]

Other(x) == IF x = "a" THEN "b" ELSE "a"

\* an operation on one container leaves the other as it looked
OtherUntouched ==
    (ret'.op # "none" /\ cfg[Other(ret'.on)] # 0) =>
        View(cfg'.heap, cfg[Other(ret'.on)]) = View(cfg.heap, cfg[Other(ret'.on)])

\* C19: constructing containers from a RuleSet and writing them by set,
\* update, append, extend, reset and parse_config never changes the RuleSet
\* object passed in - no rule, checker or default of it, at any depth - and
\* two containers built from the same RuleSet share no state: they own
\* separate objects, and a write to one is not visible in the other's values,
\* rules or defaults.
C19_RuleSetNotShared ==
    /\ [](/\ \A id \in RuleSetObjects : cfg.heap[id] = RULESET_HEAP[id]
          /\ (cfg.a # 0 /\ cfg.b # 0) =>
                Owned(cfg.heap, cfg.a) \cap Owned(cfg.heap, cfg.b) = {})
    /\ [][OtherUntouched]_vars

\* both containers are built, a holds a count, a sys.port and an element
\* that b does not hold, and b was the last one written
C19_Witness ==
    /\ cfg.a # 0 /\ cfg.b # 0
    /\ ret.op \in {"set", "update", "append", "extend", "reset", "parse"} /\ ret.on = "b"
    /\ T_count \in DOMAIN cfg.heap[cfg.a].data
    /\ T_port \in DOMAIN cfg.heap[cfg.heap[cfg.a].data[T_sys].ref].data
    /\ cfg.heap[cfg.heap[cfg.a].data[T_tags].ref].data # <<>>
    /\ View(cfg.heap, cfg.a) # View(cfg.heap, cfg.b)

\* C20: processing a section whose path cannot be fully resolved changes
\* nothing in the tree: none of its pairs is applied to any container, no
\* list child is appended for a later segment, and the segments after the
\* unresolvable one are not resolved against the container reached so far;
\* the call returns False.
C20_UnresolvableChangesNothing ==
    (ret.op = "parse" /\ ret.text \in {BOGUS_SECTION, BOGUS_TAG_SECTION}) =>
        /\ cfg = ret.before
        /\ ret.okay = Bool(FALSE)

====
